---- MODULE Spec2Model ----
(***************************************************************************)
(* Model of the data-normalization core of the finance dashboard:          *)
(* the adapter registry (getMapper), the Alpha Vantage and generic JSON    *)
(* adapters (transform) and the field extractor (extractFields).           *)
(*                                                                         *)
(* JSON values are tagged records.  Strings are sequences of one-character *)
(* strings so that parsing, substring tests and sorting are computed.      *)
(* Objects are sequences of <<key, value>> entries in own-key order (the   *)
(* order Object.keys / for-in yields for a JSON.parse'd object).           *)
(* Numbers are exact decimals m * 10^(-d) in canonical form (d = 0 or the  *)
(* last digit of m is not 0); NaN is a separate number value.              *)
(* A thrown TypeError is the distinguished outcome Throw.                  *)
(***************************************************************************)
EXTENDS Integers, Sequences, FiniteSets, TLC

\* the normalization core: a payload, a widget's mapper config and mapper id
VARIABLES payload, config, adapterId

\* the last operation and what it returned
VARIABLES op, result

\* Date.now(), and the arguments of the last call
VARIABLES now, args

\* the entries of dataCache, and for each url what was last stored for it
VARIABLES cache, stored

\* one useApiData hook: its props, state and interval timer; the requests it
\* awaits; the number of requests it has issued through the proxy
VARIABLES hook, inflight, network

\* the proxy's rateLimitMap, and per client ip the instants at which a
\* request of the ip was admitted
VARIABLES rateLimitMap, admitted

\* the redux state of the widgets slice and the browser's localStorage
VARIABLES state, localStorage

vars ==
  <<payload, config, adapterId, op, result, now, args, cache, stored,
    hook, inflight, network, rateLimitMap, admitted, state, localStorage>>

coreVars == <<payload, config, adapterId>>

cacheVars == <<cache, stored>>

hookVars == <<hook, inflight, network>>

proxyVars == <<rateLimitMap, admitted>>

storeVars == <<state, localStorage>>

\* what the calls of the normalization core leave alone
outsideCore == <<now, args, cacheVars, hookVars, proxyVars, storeVars>>

\* what the calls of the cache leave alone
outsideCache == <<coreVars, hookVars, proxyVars, storeVars>>

\* what the hook leaves alone
outsideHook == <<coreVars, stored, proxyVars, storeVars>>

\* what the proxy leaves alone
outsideProxy == <<coreVars, cacheVars, hookVars, storeVars>>

\* what the store leaves alone
outsideStore == <<coreVars, now, cacheVars, hookVars, proxyVars>>

(***************************************************************************)
(* Characters and strings                                                  *)
(***************************************************************************)

\* Printable ASCII in code order; Ascii[i] has UTF-16 code 31 + i
\* (the grave accent, code 96, is held by a placeholder no string contains).
Ascii ==
  << " ", "!", "\"", "#", "$", "%", "&", "'", "(", ")", "*", "+", ",", "-", ".", "/",
     "0", "1", "2", "3", "4", "5", "6", "7", "8", "9", ":", ";", "<", "=", ">", "?",
     "@", "A", "B", "C", "D", "E", "F", "G", "H", "I", "J", "K", "L", "M", "N", "O",
     "P", "Q", "R", "S", "T", "U", "V", "W", "X", "Y", "Z", "[", "\\", "]", "^", "_",
     "grave", "a", "b", "c", "d", "e", "f", "g", "h", "i", "j", "k", "l", "m", "n", "o",
     "p", "q", "r", "s", "t", "u", "v", "w", "x", "y", "z", "{", "|", "}", "~" >>

Code(c) == CHOOSE i \in 1..Len(Ascii) : Ascii[i] = c

Digits == <<"0", "1", "2", "3", "4", "5", "6", "7", "8", "9">>

IsDigit(c) == \E i \in 1..Len(Digits) : Digits[i] = c

DigitVal(c) == (CHOOSE i \in 1..Len(Digits) : Digits[i] = c) - 1

\* a < b in UTF-16 code-unit order (the order of the default Array.prototype.sort)
RECURSIVE StrLess(_, _)
StrLess(a, b) ==
  IF b = <<>> THEN FALSE
  ELSE IF a = <<>> THEN TRUE
  ELSE IF Head(a) = Head(b) THEN StrLess(Tail(a), Tail(b))
  ELSE Code(Head(a)) < Code(Head(b))

\* needle occurs in hay starting at position i
MatchAt(hay, needle, i) ==
  /\ i >= 1
  /\ i + Len(needle) - 1 <= Len(hay)
  /\ \A j \in 1..Len(needle) : hay[i + j - 1] = needle[j]

\* String.prototype.includes
Includes(hay, needle) == \E i \in 1..(Len(hay) + 1) : MatchAt(hay, needle, i)

\* Array.prototype.sort() with the default comparator, on strings (insertion sort)
RECURSIVE InsertSorted(_, _)
InsertSorted(s, x) ==
  IF s = <<>> THEN <<x>>
  ELSE IF StrLess(x, Head(s)) THEN <<x>> \o s
  ELSE <<Head(s)>> \o InsertSorted(Tail(s), x)

RECURSIVE SortStrings(_)
SortStrings(s) ==
  IF s = <<>> THEN <<>>
  ELSE InsertSorted(SortStrings(SubSeq(s, 1, Len(s) - 1)), s[Len(s)])

\* String.prototype.split - the pieces between the separators
RECURSIVE SplitFrom(_, _, _)
SplitFrom(s, sep, cur) ==
  IF s = <<>> THEN <<cur>>
  ELSE IF Head(s) = sep THEN <<cur>> \o SplitFrom(Tail(s), sep, <<>>)
  ELSE SplitFrom(Tail(s), sep, Append(cur, Head(s)))

Split(s, sep) == SplitFrom(s, sep, <<>>)

\* decimal digits of a natural number
RECURSIVE NatToStr(_)
NatToStr(n) ==
  IF n < 10 THEN <<Digits[n + 1]>>
  ELSE NatToStr(n \div 10) \o <<Digits[(n % 10) + 1]>>

(***************************************************************************)
(* JavaScript values                                                       *)
(***************************************************************************)

Null == [t |-> "null"]
Undef == [t |-> "undefined"]
Throw == [t |-> "throw"]
NaN == [t |-> "nan"]
Bool(b) == [t |-> "bool", b |-> b]
Str(s) == [t |-> "str", s |-> s]
Dec(m, d) == [t |-> "num", m |-> m, d |-> d]
Num(n) == Dec(n, 0)
Obj(e) == [t |-> "obj", e |-> e]
Arr(a) == [t |-> "arr", a |-> a]
\* a built-in function object reached through the prototype chain
Fn(name) == [t |-> "fn", name |-> name]
Entry(k, v) == [k |-> k, v |-> v]

\* canonical form of the decimal m * 10^(-d)
RECURSIVE Canon(_, _)
Canon(m, d) ==
  IF d > 0 /\ m % 10 = 0 THEN Canon(m \div 10, d - 1) ELSE Dec(m, d)

\* ToBoolean
Truthy(v) ==
  CASE v.t = "null" -> FALSE
    [] v.t = "undefined" -> FALSE
    [] v.t = "nan" -> FALSE
    [] v.t = "bool" -> v.b
    [] v.t = "num" -> v.m # 0
    [] v.t = "str" -> v.s # <<>>
    [] OTHER -> TRUE

\* the typeof operator
TypeOf(v) ==
  CASE v.t = "null" -> "object"
    [] v.t = "undefined" -> "undefined"
    [] v.t = "nan" -> "number"
    [] v.t = "num" -> "number"
    [] v.t = "bool" -> "boolean"
    [] v.t = "str" -> "string"
    [] v.t = "fn" -> "function"
    [] OTHER -> "object"

IsArray(v) == v.t = "arr"

(***************************************************************************)
(* String literals of the source                                           *)
(***************************************************************************)

S_proto == <<"_", "_", "p", "r", "o", "t", "o", "_", "_">>
S_constructor == <<"c", "o", "n", "s", "t", "r", "u", "c", "t", "o", "r">>
S_toString == <<"t", "o", "S", "t", "r", "i", "n", "g">>
S_hasOwnProperty == <<"h", "a", "s", "O", "w", "n", "P", "r", "o", "p", "e", "r", "t", "y">>
S_length == <<"l", "e", "n", "g", "t", "h">>
S_null == <<"n", "u", "l", "l">>
S_undefined == <<"u", "n", "d", "e", "f", "i", "n", "e", "d">>
S_true == <<"t", "r", "u", "e">>
S_false == <<"f", "a", "l", "s", "e">>
S_NaN == <<"N", "a", "N">>
S_objectObject == <<"[", "o", "b", "j", "e", "c", "t", " ", "O", "b", "j", "e", "c", "t", "]">>
S_function == <<"f", "u", "n", "c", "t", "i", "o", "n", " ", "O", "b", "j", "e", "c", "t", "(", ")", " ", "{", " ", "[", "n", "a", "t", "i", "v", "e", " ", "c", "o", "d", "e", "]", " ", "}">>

(***************************************************************************)
(* Property access, Object.keys, String(), parseFloat, JSON.stringify      *)
(***************************************************************************)

\* members every value inherits from Object.prototype (a representative set)
InheritedMethods == {S_constructor, S_toString, S_hasOwnProperty}

HasOwn(o, k) == \E i \in 1..Len(o.e) : o.e[i].k = k

OwnVal(o, k) == o.e[CHOOSE i \in 1..Len(o.e) : o.e[i].k = k].v

\* a string that is a canonical array index: "0", "1", ..., without leading zero
IsIndex(k) ==
  /\ k # <<>>
  /\ \A i \in 1..Len(k) : IsDigit(k[i])
  /\ (Len(k) > 1 => k[1] # "0")

RECURSIVE StrToNat(_)
StrToNat(ds) ==
  IF ds = <<>> THEN 0 ELSE 10 * StrToNat(SubSeq(ds, 1, Len(ds) - 1)) + DigitVal(ds[Len(ds)])

\* what the prototype chain yields for a name that is not an own property
Inherited(v, k) ==
  IF k = S_proto THEN (IF v.t = "arr" THEN Arr(<<>>) ELSE Obj(<<>>))
  ELSE IF k \in InheritedMethods THEN Fn(k)
  ELSE Undef

\* the property read v[k]; reading a property of null or undefined throws
Get(v, k) ==
  CASE v.t \in {"null", "undefined", "throw"} -> Throw
    [] v.t = "obj" -> IF HasOwn(v, k) THEN OwnVal(v, k) ELSE Inherited(v, k)
    [] v.t = "arr" ->
         IF IsIndex(k) /\ StrToNat(k) < Len(v.a) THEN v.a[StrToNat(k) + 1]
         ELSE IF k = S_length THEN Num(Len(v.a))
         ELSE Inherited(v, k)
    [] v.t = "str" ->
         IF IsIndex(k) /\ StrToNat(k) < Len(v.s) THEN Str(<<v.s[StrToNat(k) + 1]>>)
         ELSE IF k = S_length THEN Num(Len(v.s))
         ELSE Inherited(v, k)
    [] OTHER -> Inherited(v, k)

\* the optional chain v?.[k]
GetOpt(v, k) == IF v.t \in {"null", "undefined"} THEN Undef ELSE Get(v, k)

\* Object.keys(v) throws a TypeError on null and undefined
KeysThrow(v) == v.t \in {"null", "undefined", "throw"}

\* Object.keys(v): own enumerable string keys
ObjectKeys(v) ==
  CASE v.t \in {"null", "undefined", "throw"} -> Throw
    [] v.t = "obj" -> [i \in 1..Len(v.e) |-> v.e[i].k]
    [] v.t = "arr" -> [i \in 1..Len(v.a) |-> NatToStr(i - 1)]
    [] v.t = "str" -> [i \in 1..Len(v.s) |-> NatToStr(i - 1)]
    [] OTHER -> <<>>

RECURSIVE Pow10(_)
Pow10(n) == IF n = 0 THEN 1 ELSE 10 * Pow10(n - 1)

Abs(n) == IF n < 0 THEN 0 - n ELSE n

RECURSIVE PadZeros(_, _)
PadZeros(s, n) == IF Len(s) >= n THEN s ELSE PadZeros(<<"0">> \o s, n)

\* Number::toString for a decimal in the range printed without an exponent
NumToStr(v) ==
  LET sign == IF v.m < 0 THEN <<"-">> ELSE <<>>
      a == Abs(v.m)
  IN IF v.d = 0 THEN sign \o NatToStr(a)
     ELSE sign \o NatToStr(a \div Pow10(v.d)) \o <<".">>
               \o PadZeros(NatToStr(a % Pow10(v.d)), v.d)

RECURSIVE ToStr(_)
RECURSIVE JoinElems(_)
\* Array.prototype.join(","): null and undefined elements give the empty string
JoinElems(a) ==
  IF a = <<>> THEN <<>>
  ELSE LET h == IF Head(a).t \in {"null", "undefined"} THEN <<>> ELSE ToStr(Head(a))
       IN IF Len(a) = 1 THEN h ELSE h \o <<",">> \o JoinElems(Tail(a))

\* the abstract operation ToStr (String(v))
ToStr(v) ==
  CASE v.t = "str" -> v.s
    [] v.t = "num" -> NumToStr(v)
    [] v.t = "nan" -> S_NaN
    [] v.t = "null" -> S_null
    [] v.t = "undefined" -> S_undefined
    [] v.t = "bool" -> (IF v.b THEN S_true ELSE S_false)
    [] v.t = "arr" -> JoinElems(v.a)
    [] v.t = "fn" -> S_function
    [] OTHER -> S_objectObject

RECURSIVE SkipSpaces(_)
SkipSpaces(s) == IF s # <<>> /\ Head(s) = " " THEN SkipSpaces(Tail(s)) ELSE s

RECURSIVE DigitPrefix(_)
DigitPrefix(s) ==
  IF s # <<>> /\ IsDigit(Head(s)) THEN <<Head(s)>> \o DigitPrefix(Tail(s)) ELSE <<>>

Drop(s, n) == SubSeq(s, n + 1, Len(s))

\* the exponent an "e" part contributes (0 when there is no well-formed one)
ExpPart(r) ==
  IF r # <<>> /\ Head(r) \in {"e", "E"}
  THEN LET r1 == Tail(r)
           neg == r1 # <<>> /\ Head(r1) = "-"
           r2 == IF r1 # <<>> /\ Head(r1) \in {"-", "+"} THEN Tail(r1) ELSE r1
           ds == DigitPrefix(r2)
       IN IF neg THEN 0 - StrToNat(ds) ELSE StrToNat(ds)
  ELSE 0

\* parseFloat on a string: the longest prefix that is a decimal literal, else NaN
\* (the literal Infinity is outside the strings considered)
ParseFloatStr(s) ==
  LET s1 == SkipSpaces(s)
      neg == s1 # <<>> /\ Head(s1) = "-"
      s2 == IF s1 # <<>> /\ Head(s1) \in {"-", "+"} THEN Tail(s1) ELSE s1
      ip == DigitPrefix(s2)
      s3 == Drop(s2, Len(ip))
      dot == s3 # <<>> /\ Head(s3) = "."
      fp == IF dot THEN DigitPrefix(Tail(s3)) ELSE <<>>
      s4 == IF dot THEN Drop(s3, 1 + Len(fp)) ELSE s3
      e == ExpPart(s4)
      m == IF neg THEN 0 - StrToNat(ip \o fp) ELSE StrToNat(ip \o fp)
      sh == e - Len(fp)
  IN IF ip = <<>> /\ fp = <<>> THEN NaN
     ELSE IF sh >= 0 THEN Dec(m * Pow10(sh), 0)
     ELSE Canon(m, 0 - sh)

\* parseFloat(v): the argument is converted with ToStr first
parseFloat(v) == ParseFloatStr(ToStr(v))

RECURSIVE Quote(_)
\* the body of a JSON string literal: quotation mark and backslash are escaped
Quote(s) ==
  IF s = <<>> THEN <<>>
  ELSE (IF Head(s) \in {"\"", "\\"} THEN <<"\\", Head(s)>> ELSE <<Head(s)>>) \o Quote(Tail(s))

RECURSIVE Stringify(_)
RECURSIVE StringifyElems(_)
RECURSIVE StringifyEntries(_, _)
StringifyElems(a) ==
  IF a = <<>> THEN <<>>
  ELSE LET h == IF Head(a).t \in {"undefined", "fn"} THEN S_null ELSE Stringify(Head(a))
       IN IF Len(a) = 1 THEN h ELSE h \o <<",">> \o StringifyElems(Tail(a))

\* entries whose value is undefined or a function are left out
StringifyEntries(e, first) ==
  IF e = <<>> THEN <<>>
  ELSE IF Head(e).v.t \in {"undefined", "fn"} THEN StringifyEntries(Tail(e), first)
  ELSE (IF first THEN <<>> ELSE <<",">>)
       \o <<"\"">> \o Quote(Head(e).k) \o <<"\"", ":">> \o Stringify(Head(e).v)
       \o StringifyEntries(Tail(e), FALSE)

\* the text JSON.stringify(v) produces, without indentation
Stringify(v) ==
  CASE v.t = "null" -> S_null
    [] v.t = "nan" -> S_null
    [] v.t = "bool" -> (IF v.b THEN S_true ELSE S_false)
    [] v.t = "num" -> NumToStr(v)
    [] v.t = "str" -> <<"\"">> \o Quote(v.s) \o <<"\"">>
    [] v.t = "arr" -> <<"[">> \o StringifyElems(v.a) \o <<"]">>
    [] OTHER -> <<"{">> \o StringifyEntries(v.e, TRUE) \o <<"}">>

\* JSON.stringify(v): undefined for undefined and functions, else a string
JSONstringify(v) == IF v.t \in {"undefined", "fn"} THEN Undef ELSE Str(Stringify(v))

S_rootPath == <<"r", "o", "o", "t", "P", "a", "t", "h">>
S_fieldMapping == <<"f", "i", "e", "l", "d", "M", "a", "p", "p", "i", "n", "g">>
S_value == <<"v", "a", "l", "u", "e">>
S_label == <<"l", "a", "b", "e", "l">>
S_Key == <<"K", "e", "y">>
S_Value == <<"V", "a", "l", "u", "e">>
S_TimeSeries == <<"T", "i", "m", "e", " ", "S", "e", "r", "i", "e", "s">>
S_Daily == <<"D", "a", "i", "l", "y">>
S_Weekly == <<"W", "e", "e", "k", "l", "y">>
S_Monthly == <<"M", "o", "n", "t", "h", "l", "y">>
S_close == <<"4", ".", " ", "c", "l", "o", "s", "e">>
S_GlobalQuote == <<"G", "l", "o", "b", "a", "l", " ", "Q", "u", "o", "t", "e">>
S_symbol == <<"0", "1", ".", " ", "s", "y", "m", "b", "o", "l">>
S_price == <<"0", "5", ".", " ", "p", "r", "i", "c", "e">>
S_change == <<"0", "9", ".", " ", "c", "h", "a", "n", "g", "e">>
S_Unknown == <<"U", "n", "k", "n", "o", "w", "n">>
S_zero == <<"0">>
S_alphaVantage == <<"a", "l", "p", "h", "a", "-", "v", "a", "n", "t", "a", "g", "e">>
S_genericJson == <<"g", "e", "n", "e", "r", "i", "c", "-", "j", "s", "o", "n">>
S_avName == <<"A", "l", "p", "h", "a", " ", "V", "a", "n", "t", "a", "g", "e", " ", "A", "d", "a", "p", "t", "e", "r">>
S_gjName == <<"G", "e", "n", "e", "r", "i", "c", " ", "J", "S", "O", "N", " ", "A", "d", "a", "p", "t", "e", "r">>
S_avDescription == <<"H", "a", "n", "d", "l", "e", "s", " ", "T", "i", "m", "e", " ", "S", "e", "r", "i", "e", "s", " ", "a", "n", "d", " ", "G", "l", "o", "b", "a", "l", " ", "Q", "u", "o", "t", "e", " ", "d", "a", "t", "a", " ", "f", "r", "o", "m", " ", "A", "l", "p", "h", "a", " ", "V", "a", "n", "t", "a", "g", "e", " ", "A", "P", "I">>
S_gjDescription == <<"A", "u", "t", "o", "-", "d", "e", "t", "e", "c", "t", "s", " ", "s", "t", "r", "u", "c", "t", "u", "r", "e", " ", "(", "A", "r", "r", "a", "y", " ", "-", ">", " ", "T", "a", "b", "l", "e", ",", " ", "O", "b", "j", "e", "c", "t", " ", "-", ">", " ", "M", "e", "t", "r", "i", "c", "/", "L", "i", "s", "t", ")">>

(***************************************************************************)
(* Standardized results                                                    *)
(***************************************************************************)

Std(type, data) == [t |-> "std", type |-> type, data |-> data]

\* a || b
OrElse(a, b) == IF Truthy(a) THEN a ELSE b

\* config?.rootPath
ConfigRootPath(cfg) == GetOpt(cfg, S_rootPath)

\* config?.fieldMapping?.value
ConfigValue(cfg) == GetOpt(GetOpt(cfg, S_fieldMapping), S_value)

\* config.fieldMapping.label
ConfigLabel(cfg) == GetOpt(GetOpt(cfg, S_fieldMapping), S_label)

(***************************************************************************)
(* GenericJSONAdapter                                                      *)
(***************************************************************************)

\* outcome of the root-path loop when a segment does not resolve
NoTarget == [t |-> "return-null"]

\* the root-path loop as it would be without the typeof check on the current value
RECURSIVE Navigate_NoTypeCheck(_, _)
Navigate_NoTypeCheck(targetData, parts) ==
  IF parts = <<>> THEN targetData
  ELSE IF /\ targetData # Null
          /\ targetData # Undef
          /\ Get(targetData, Head(parts)) # Undef
       THEN Navigate_NoTypeCheck(Get(targetData, Head(parts)), Tail(parts))
       ELSE NoTarget

\* the for-loop over rootPath.split(".")
RECURSIVE Navigate(_, _)
Navigate(targetData, parts) ==
  IF parts = <<>> THEN targetData
  ELSE IF /\ TypeOf(targetData) = "object"
          /\ targetData # Null
          /\ Get(targetData, Head(parts)) # Undef
       THEN Navigate(Get(targetData, Head(parts)), Tail(parts))
       ELSE NoTarget

\* rows of the Key/Value table: Object.entries(targetData).map(...)
KeyValueRows(targetData) ==
  [i \in 1..Len(targetData.e) |->
     Obj(<<Entry(S_Key, Str(targetData.e[i].k)),
           Entry(S_Value, IF TypeOf(targetData.e[i].v) = "object"
                          THEN JSONstringify(targetData.e[i].v)
                          ELSE targetData.e[i].v)>>)]

\* the array branch: Object.keys of the first element gives the headers
GenericArrayBranch(targetData) ==
  IF Len(targetData.a) = 0 THEN Std("table", [headers |-> <<>>, rows |-> <<>>])
  ELSE LET headers == ObjectKeys(targetData.a[1])
       IN IF KeysThrow(targetData.a[1]) THEN Throw
          ELSE Std("table", [headers |-> headers, rows |-> targetData.a])

\* the object branch as it would be if the metric value were parsed to a number
GenericObjectBranch_Coerced(targetData, cfg) ==
  IF Truthy(ConfigValue(cfg))
  THEN Std("metric", [label |-> OrElse(ConfigLabel(cfg), Str(S_Value)),
                      value |-> parseFloat(Get(targetData, ToStr(ConfigValue(cfg))))])
  ELSE Std("table", [headers |-> <<S_Key, S_Value>>, rows |-> KeyValueRows(targetData)])

\* the object branch: a metric when fieldMapping.value is set, else a Key/Value table
GenericObjectBranch(targetData, cfg) ==
  IF Truthy(ConfigValue(cfg))
  THEN Std("metric", [label |-> OrElse(ConfigLabel(cfg), Str(S_Value)),
                      value |-> Get(targetData, ToStr(ConfigValue(cfg)))])
  ELSE Std("table", [headers |-> <<S_Key, S_Value>>, rows |-> KeyValueRows(targetData)])

\* the part of transform after the root path has been resolved
GenericShape(targetData, cfg) ==
  IF IsArray(targetData) THEN GenericArrayBranch(targetData)
  ELSE IF TypeOf(targetData) = "object" /\ targetData # Null
       THEN GenericObjectBranch(targetData, cfg)
       ELSE Null

\* the value the adapter operates on: data itself, or what rootPath resolves to
GenericTarget(data, cfg) ==
  IF Truthy(ConfigRootPath(cfg))
  THEN Navigate(data, Split(ToStr(ConfigRootPath(cfg)), "."))
  ELSE data

GenericJSONAdapter_transform(data, cfg) ==
  IF ~Truthy(data) THEN Null
  ELSE LET targetData == GenericTarget(data, cfg)
       IN IF targetData = NoTarget THEN Null ELSE GenericShape(targetData, cfg)

GenericJSONAdapter ==
  [t |-> "adapter", id |-> S_genericJson, name |-> S_gjName,
   description |-> S_gjDescription, transform |-> "GenericJSONAdapter.transform"]

(***************************************************************************)
(* AlphaVantageAdapter                                                     *)
(***************************************************************************)

IsTimeSeriesKey(k) ==
  \/ Includes(k, S_TimeSeries)
  \/ Includes(k, S_Daily)
  \/ Includes(k, S_Weekly)
  \/ Includes(k, S_Monthly)

\* Object.keys(obj).find(...): the first matching key, undefined when none
FindTimeSeriesKey(obj) ==
  LET keys == ObjectKeys(obj)
      hits == {i \in 1..Len(keys) : IsTimeSeriesKey(keys[i])}
  IN IF hits = {} THEN Undef
     ELSE Str(keys[CHOOSE i \in hits : \A j \in hits : i <= j])

\* one chart point: a string field is parsed, anything else is 0
ChartPoint(timeSeries, date, targetField) ==
  LET val == GetOpt(Get(timeSeries, date), ToStr(targetField))
  IN IF TypeOf(val) = "string" THEN parseFloat(val) ELSE Num(0)

AlphaTimeSeriesBranch(obj, timeSeriesKey, cfg) ==
  LET timeSeries == Get(obj, timeSeriesKey.s)
      keys == ObjectKeys(timeSeries)
      targetField == OrElse(ConfigValue(cfg), Str(S_close))
  IN IF KeysThrow(timeSeries) THEN Throw
     ELSE LET dates == SortStrings(keys)
          IN Std("chart",
                 [labels |-> dates,
                  datasets |-> <<[label |-> targetField,
                                  data |-> [i \in 1..Len(dates) |->
                                              ChartPoint(timeSeries, dates[i], targetField)]]>>])

\* x >= 0 on numbers; every comparison with NaN is false
GeZero(x) == x.t = "num" /\ x.m >= 0

\* the quote branch as it would be with a strict comparison for changeType
AlphaQuoteBranch_StrictSign(quote) ==
  Std("metric",
      [label |-> OrElse(Get(quote, S_symbol), Str(S_Unknown)),
       value |-> parseFloat(OrElse(Get(quote, S_price), Str(S_zero))),
       change |-> parseFloat(OrElse(Get(quote, S_change), Str(S_zero))),
       changeType |-> IF parseFloat(OrElse(Get(quote, S_change), Str(S_zero))).t = "num"
                         /\ parseFloat(OrElse(Get(quote, S_change), Str(S_zero))).m > 0
                      THEN "positive" ELSE "negative"])

AlphaQuoteBranch(quote) ==
  Std("metric",
      [label |-> OrElse(Get(quote, S_symbol), Str(S_Unknown)),
       value |-> parseFloat(OrElse(Get(quote, S_price), Str(S_zero))),
       change |-> parseFloat(OrElse(Get(quote, S_change), Str(S_zero))),
       changeType |-> IF GeZero(parseFloat(OrElse(Get(quote, S_change), Str(S_zero))))
                      THEN "positive" ELSE "negative"])

AlphaVantageAdapter_transform(data, cfg) ==
  IF ~Truthy(data) \/ TypeOf(data) # "object" THEN Null
  ELSE LET timeSeriesKey == FindTimeSeriesKey(data)
       IN IF Truthy(timeSeriesKey) THEN AlphaTimeSeriesBranch(data, timeSeriesKey, cfg)
          ELSE IF Truthy(Get(data, S_GlobalQuote)) THEN AlphaQuoteBranch(Get(data, S_GlobalQuote))
          ELSE Null

AlphaVantageAdapter ==
  [t |-> "adapter", id |-> S_alphaVantage, name |-> S_avName,
   description |-> S_avDescription, transform |-> "AlphaVantageAdapter.transform"]

(***************************************************************************)
(* Adapter registry                                                        *)
(***************************************************************************)

\* the registry object literal: a plain object, so it inherits Object.prototype
mappers ==
  Obj(<<Entry(AlphaVantageAdapter.id, AlphaVantageAdapter),
        Entry(GenericJSONAdapter.id, GenericJSONAdapter)>>)

getMapper(id) == OrElse(Get(mappers, ToStr(id)), GenericJSONAdapter)

\* mapper.transform(data, config); calling a missing transform throws
transform(mapper, data, cfg) ==
  IF mapper.t # "adapter" THEN Throw
  ELSE IF mapper.transform = "AlphaVantageAdapter.transform"
       THEN AlphaVantageAdapter_transform(data, cfg)
       ELSE GenericJSONAdapter_transform(data, cfg)

(***************************************************************************)
(* Structure classifier and field extractor                                *)
(***************************************************************************)

S_root == <<"r", "o", "o", "t">>
S_time == <<"t", "i", "m", "e">>
S_series == <<"s", "e", "r", "i", "e", "s">>
S_time_series == <<"t", "i", "m", "e", "_", "s", "e", "r", "i", "e", "s">>
S_timeSeriesLower == <<"t", "i", "m", "e", " ", "s", "e", "r", "i", "e", "s">>
S_daily == <<"d", "a", "i", "l", "y">>
S_weekly == <<"w", "e", "e", "k", "l", "y">>
S_monthly == <<"m", "o", "n", "t", "h", "l", "y">>
S_global == <<"g", "l", "o", "b", "a", "l">>
S_quote == <<"q", "u", "o", "t", "e">>
S_data == <<"d", "a", "t", "a">>

Upper == <<"A", "B", "C", "D", "E", "F", "G", "H", "I", "J", "K", "L", "M",
           "N", "O", "P", "Q", "R", "S", "T", "U", "V", "W", "X", "Y", "Z">>

Letters == <<"a", "b", "c", "d", "e", "f", "g", "h", "i", "j", "k", "l", "m",
             "n", "o", "p", "q", "r", "s", "t", "u", "v", "w", "x", "y", "z">>

IsUpper(c) == \E i \in 1..Len(Upper) : Upper[i] = c

LowerChar(c) == IF IsUpper(c) THEN Letters[CHOOSE i \in 1..Len(Upper) : Upper[i] = c] ELSE c

\* the string with ASCII letters folded to lower case (the i flag of the patterns)
Lower(s) == [i \in 1..Len(s) |-> LowerChar(s[i])]

\* /a.?b/ : a, then at most one arbitrary character, then b
MatchesGap(s, a, b) ==
  \E i \in 1..(Len(s) + 1) :
     /\ MatchAt(s, a, i)
     /\ \/ MatchAt(s, b, i + Len(a))
        \/ MatchAt(s, b, i + Len(a) + 1)

\* patterns.some(pattern => pattern.test(key)) for the time-series patterns
TimeSeriesPattern(key) ==
  LET k == Lower(key)
  IN \/ MatchesGap(k, S_time, S_series)
     \/ Includes(k, S_time_series)
     \/ Includes(k, S_timeSeriesLower)
     \/ Includes(k, S_daily)
     \/ Includes(k, S_weekly)
     \/ Includes(k, S_monthly)

\* quotePatterns.some(pattern => pattern.test(key))
QuotePattern(key) ==
  LET k == Lower(key)
  IN \/ MatchesGap(k, S_global, S_quote)
     \/ Includes(k, S_quote)
     \/ Includes(k, S_data)

\* /^\d{4}-\d{2}-\d{2}/.test(s)
DateLike(s) ==
  /\ Len(s) >= 10
  /\ \A i \in {1, 2, 3, 4, 6, 7, 9, 10} : IsDigit(s[i])
  /\ s[5] = "-"
  /\ s[8] = "-"

\* /^\d+$/.test(s)
PureDigits(s) == s # <<>> /\ \A i \in 1..Len(s) : IsDigit(s[i])

\* value && typeof value === "object" && !Array.isArray(value)
IsPlainObject(v) == Truthy(v) /\ TypeOf(v) = "object" /\ ~IsArray(v)

\* Object.keys(v)[0] is a date-like string
FirstKeyDateLike(v) == ObjectKeys(v) # <<>> /\ DateLike(ObjectKeys(v)[1])

Found(key, data) == [key |-> key, data |-> data]

\* findTimeSeries as it would be without the test of the first key of the value
findTimeSeries_NoDateCheck(data) ==
  IF ~Truthy(data) \/ TypeOf(data) # "object" THEN Null
  ELSE LET keys == ObjectKeys(data)
           hits == {i \in 1..Len(keys) :
                      /\ TimeSeriesPattern(keys[i])
                      /\ IsPlainObject(Get(data, keys[i]))}
       IN IF hits # {}
          THEN LET i == CHOOSE h \in hits : \A j \in hits : h <= j
               IN Found(keys[i], Get(data, keys[i]))
          ELSE IF FirstKeyDateLike(data) THEN Found(S_root, data)
          ELSE Null

findTimeSeries(data) ==
  IF ~Truthy(data) \/ TypeOf(data) # "object" THEN Null
  ELSE LET keys == ObjectKeys(data)
           hits == {i \in 1..Len(keys) :
                      /\ TimeSeriesPattern(keys[i])
                      /\ IsPlainObject(Get(data, keys[i]))
                      /\ FirstKeyDateLike(Get(data, keys[i]))}
       IN IF hits # {}
          THEN LET i == CHOOSE h \in hits : \A j \in hits : h <= j
               IN Found(keys[i], Get(data, keys[i]))
          ELSE IF FirstKeyDateLike(data) THEN Found(S_root, data)
          ELSE Null

\* findDataStructure as it would be without the test of the value of a quote key
findDataStructure_AnyValue(data) ==
  IF ~Truthy(data) \/ TypeOf(data) # "object" THEN Null
  ELSE LET timeSeries == findTimeSeries(data)
           keys == ObjectKeys(data)
           hits == {i \in 1..Len(keys) : QuotePattern(keys[i])}
       IN IF timeSeries # Null
          THEN [key |-> timeSeries.key, data |-> timeSeries.data, isTimeSeries |-> TRUE]
          ELSE IF hits # {}
          THEN LET i == CHOOSE h \in hits : \A j \in hits : h <= j
               IN [key |-> keys[i], data |-> Get(data, keys[i]), isTimeSeries |-> FALSE]
          ELSE [key |-> S_root, data |-> data, isTimeSeries |-> FALSE]

findDataStructure(data) ==
  IF ~Truthy(data) \/ TypeOf(data) # "object" THEN Null
  ELSE LET timeSeries == findTimeSeries(data)
           keys == ObjectKeys(data)
           hits == {i \in 1..Len(keys) :
                      QuotePattern(keys[i]) /\ IsPlainObject(Get(data, keys[i]))}
       IN IF timeSeries # Null
          THEN [key |-> timeSeries.key, data |-> timeSeries.data, isTimeSeries |-> TRUE]
          ELSE IF hits # {}
          THEN LET i == CHOOSE h \in hits : \A j \in hits : h <= j
               IN [key |-> keys[i], data |-> Get(data, keys[i]), isTimeSeries |-> FALSE]
          ELSE [key |-> S_root, data |-> data, isTimeSeries |-> FALSE]

\* parseInt(a.match(/^\d+/)?.[0] || "0")
LeadingInt(a) == StrToNat(DigitPrefix(a))

\* characters in the order of the root collation: space, punctuation, symbols,
\* digits, letters; letters of either case share a primary weight
CollationOrder ==
  << " ", "_", "-", ",", ";", ":", "!", "?", ".", "'", "\"", "(", ")", "[", "]", "{",
     "}", "@", "*", "/", "\\", "&", "#", "%", "grave", "^", "+", "<", "=", ">", "|",
     "~", "$", "0", "1", "2", "3", "4", "5", "6", "7", "8", "9" >> \o Letters

Primary(c) == CHOOSE i \in 1..Len(CollationOrder) : CollationOrder[i] = LowerChar(c)

RECURSIVE PrimaryCmp(_, _)
PrimaryCmp(a, b) ==
  IF a = <<>> /\ b = <<>> THEN 0
  ELSE IF a = <<>> THEN 0 - 1
  ELSE IF b = <<>> THEN 1
  ELSE IF Primary(Head(a)) = Primary(Head(b)) THEN PrimaryCmp(Tail(a), Tail(b))
  ELSE IF Primary(Head(a)) < Primary(Head(b)) THEN 0 - 1 ELSE 1

\* tie-break of equal primary keys: at the first difference lower case goes first
RECURSIVE CaseCmp(_, _)
CaseCmp(a, b) ==
  IF a = <<>> THEN 0
  ELSE IF Head(a) = Head(b) THEN CaseCmp(Tail(a), Tail(b))
  ELSE IF IsUpper(Head(b)) THEN 0 - 1 ELSE 1

\* a.localeCompare(b)
localeCompare(a, b) == IF PrimaryCmp(a, b) # 0 THEN PrimaryCmp(a, b) ELSE CaseCmp(a, b)

\* the comparator of the natural sort: leading integer, then localeCompare
NaturalCmp(a, b) ==
  IF LeadingInt(a) # LeadingInt(b) THEN LeadingInt(a) - LeadingInt(b)
  ELSE localeCompare(a, b)

\* fields.sort(comparator), a stable sort
RECURSIVE InsertNatural(_, _)
InsertNatural(s, x) ==
  IF s = <<>> THEN <<x>>
  ELSE IF NaturalCmp(x, Head(s)) < 0 THEN <<x>> \o s
  ELSE <<Head(s)>> \o InsertNatural(Tail(s), x)

RECURSIVE NaturalSort(_)
NaturalSort(s) ==
  IF s = <<>> THEN <<>>
  ELSE InsertNatural(NaturalSort(SubSeq(s, 1, Len(s) - 1)), s[Len(s)])

\* a JavaScript array of strings, and the strings of such an array
StrArr(s) == Arr([i \in 1..Len(s) |-> Str(s[i])])

Strings(arr) == [i \in 1..Len(arr.a) |-> arr.a[i].s]

\* obj.hasOwnProperty(key) inside a for-in loop with at least one key: an own
\* entry named hasOwnProperty shadows the method, and calling it throws
ShadowedHasOwn(o) == o.t = "obj" /\ o.e # <<>> /\ HasOwn(o, S_hasOwnProperty)

extractTimeSeriesFields(data) ==
  LET timeSeries == findTimeSeries(data)
  IN IF timeSeries = Null THEN StrArr(<<>>)
     ELSE LET dates == ObjectKeys(timeSeries.data)
          IN IF Len(dates) = 0 THEN StrArr(<<>>)
             ELSE LET firstEntry == Get(timeSeries.data, dates[1])
                  IN IF ~IsPlainObject(firstEntry) THEN StrArr(<<>>)
                     ELSE IF ShadowedHasOwn(firstEntry) THEN Throw
                     ELSE StrArr(NaturalSort(ObjectKeys(firstEntry)))

\* value === null || value === undefined || typeof value !== "object" || Array.isArray(value)
IsLeaf(v) == v = Null \/ v = Undef \/ TypeOf(v) # "object" \/ IsArray(v)

LeafKeys(o) ==
  LET IsLeafKey(k) == IsLeaf(Get(o, k))
  IN SelectSeq(ObjectKeys(o), IsLeafKey)

extractSimpleFields(data) ==
  LET structure == findDataStructure(data)
  IN IF structure = Null THEN StrArr(<<>>)
     ELSE IF ~IsPlainObject(structure.data) THEN StrArr(<<>>)
     ELSE IF ShadowedHasOwn(structure.data) THEN Throw
     ELSE StrArr(NaturalSort(LeafKeys(structure.data)))

\* f => typeof f === "string" && f.length > 0 && !/^\d+$/.test(f)
IsFieldName(f) == Len(f) > 0 /\ ~PureDigits(f)

NotPureDigits(f) == ~PureDigits(f)

\* the root-level fallback loop: leaf keys, and the immediate keys of nested objects
RECURSIVE FlattenFields(_, _)
FlattenFields(o, keys) ==
  IF keys = <<>> THEN <<>>
  ELSE LET value == Get(o, Head(keys))
           here == IF IsLeaf(value)
                   THEN SelectSeq(<<Head(keys)>>, NotPureDigits)
                   ELSE SelectSeq(ObjectKeys(value), NotPureDigits)
       IN here \o FlattenFields(o, Tail(keys))

\* extractFields as it would be without the filters on the produced names
extractFields_Unfiltered(data) ==
  IF ~Truthy(data) \/ TypeOf(data) # "object" THEN StrArr(<<>>)
  ELSE IF findTimeSeries(data) # Null THEN extractTimeSeriesFields(data)
  ELSE IF findDataStructure(data) # Null /\ ~findDataStructure(data).isTimeSeries
  THEN extractSimpleFields(data)
  ELSE IF ShadowedHasOwn(data) THEN Throw
  ELSE StrArr(SortStrings(FlattenFields(data, ObjectKeys(data))))

extractFields(data) ==
  IF ~Truthy(data) \/ TypeOf(data) # "object" THEN StrArr(<<>>)
  ELSE IF findTimeSeries(data) # Null
  THEN LET fields == extractTimeSeriesFields(data)
       IN IF fields = Throw THEN Throw ELSE StrArr(SelectSeq(Strings(fields), IsFieldName))
  ELSE IF findDataStructure(data) # Null /\ ~findDataStructure(data).isTimeSeries
  THEN LET fields == extractSimpleFields(data)
       IN IF fields = Throw THEN Throw ELSE StrArr(SelectSeq(Strings(fields), IsFieldName))
  ELSE IF ShadowedHasOwn(data) THEN Throw
  ELSE StrArr(SortStrings(FlattenFields(data, ObjectKeys(data))))

(***************************************************************************)
(* WidgetRenderer: processed data and the standardized view conversion     *)
(***************************************************************************)

S_Label == <<"L", "a", "b", "e", "l">>

\* a result of the renderer's own classification
Classified(type, key, data) == [t |-> "classified", type |-> type, key |-> key, data |-> data]

\* the renderer's quotePatterns.some(pattern => pattern.test(key))
RendererQuotePattern(key) ==
  LET k == Lower(key)
  IN \/ MatchesGap(k, S_global, S_quote)
     \/ Includes(k, S_quote)

\* the classification that follows the mapper block
FallbackClassification(data) ==
  LET timeSeries == findTimeSeries(data)
      keys == ObjectKeys(data)
      hits == {i \in 1..Len(keys) :
                 RendererQuotePattern(keys[i]) /\ IsPlainObject(Get(data, keys[i]))}
  IN IF timeSeries # Null
     THEN Classified("timeSeries", timeSeries.key, timeSeries.data)
     ELSE IF hits # {}
     THEN LET i == CHOOSE h \in hits : \A j \in hits : h <= j
          IN Classified("quote", keys[i], Get(data, keys[i]))
     ELSE IF IsArray(data) THEN Classified("array", S_root, data)
     ELSE IF TypeOf(data) = "object" /\ data # Null THEN Classified("object", S_root, data)
     ELSE Null

\* the processedData memo; an exception of the mapper leaves the memo
processedData(data, mapperId, mapperConfig) ==
  IF ~Truthy(data) THEN Null
  ELSE LET mapped == IF Truthy(mapperId)
                     THEN transform(getMapper(mapperId), data, mapperConfig)
                     ELSE Null
       IN IF mapped = Throw THEN Throw
          ELSE IF Truthy(mapped) THEN mapped
          ELSE FallbackClassification(data)

\* row[key] = value on an object literal under construction
SetProp(o, k, v) ==
  IF HasOwn(o, k)
  THEN Obj([i \in 1..Len(o.e) |-> IF o.e[i].k = k THEN Entry(k, v) ELSE o.e[i]])
  ELSE Obj(Append(o.e, Entry(k, v)))

\* chartData.datasets.forEach(ds => { row[ds.label] = ds.data[i]; })
RECURSIVE FillRow(_, _, _)
FillRow(row, datasets, i) ==
  IF datasets = <<>> THEN row
  ELSE FillRow(SetProp(row, ToStr(Head(datasets).label), Head(datasets).data[i]),
               Tail(datasets), i)

\* Convert Chart to Table
ChartToTable(chartData) ==
  Std("table",
      [headers |-> <<S_Label>> \o [j \in 1..Len(chartData.datasets) |->
                                     ToStr(chartData.datasets[j].label)],
       rows |-> [i \in 1..Len(chartData.labels) |->
                   FillRow(Obj(<<Entry(S_Label, Str(chartData.labels[i]))>>),
                           chartData.datasets, i)]])

\* val.replace(/[^0-9.-]+/g, "")
NumericChars(s) ==
  LET Keep(c) == IsDigit(c) \/ c = "." \/ c = "-"
  IN SelectSeq(s, Keep)

\* one data point of the converted chart
TablePoint(r, field) ==
  LET val == Get(r, field)
  IN IF TypeOf(val) = "string" THEN ParseFloatStr(NumericChars(val.s))
     ELSE IF TypeOf(val) = "number" THEN val
     ELSE Num(0)

\* a row that is null or undefined makes r[labelField] throw
RowThrows(rows) == \E i \in 1..Len(rows) : KeysThrow(rows[i])

\* Convert Table to Chart as it would be if rows without the field were skipped
TableToChart_SkipMissing(tableData) ==
  IF Len(tableData.headers) <= 1 THEN Std("table", tableData)
  ELSE IF RowThrows(tableData.rows) THEN Throw
  ELSE LET labelField == tableData.headers[1]
           dataFields == Tail(tableData.headers)
           Present(r) == Get(r, dataFields[1]) # Undef
       IN Std("chart",
              [labels |-> [i \in 1..Len(tableData.rows) |->
                             ToStr(Get(tableData.rows[i], labelField))],
               datasets |-> [j \in 1..Len(dataFields) |->
                               [label |-> Str(dataFields[j]),
                                data |-> [i \in 1..Len(SelectSeq(tableData.rows, Present)) |->
                                            TablePoint(SelectSeq(tableData.rows, Present)[i],
                                                       dataFields[j])]]]])

\* Convert Table to Chart (first column is the label, the others are data)
TableToChart(tableData) ==
  IF Len(tableData.headers) <= 1 THEN Std("table", tableData)
  ELSE IF RowThrows(tableData.rows) THEN Throw
  ELSE LET labelField == tableData.headers[1]
           dataFields == Tail(tableData.headers)
       IN Std("chart",
              [labels |-> [i \in 1..Len(tableData.rows) |->
                             ToStr(Get(tableData.rows[i], labelField))],
               datasets |-> [j \in 1..Len(dataFields) |->
                               [label |-> Str(dataFields[j]),
                                data |-> [i \in 1..Len(tableData.rows) |->
                                            TablePoint(tableData.rows[i], dataFields[j])]]]])

\* what the render body displays: renderType and renderData after the view
\* conversion for a standardized result, the classified structure otherwise
StandardizedView(widgetType, processed) ==
  IF processed.t # "std" THEN processed
  ELSE IF widgetType = "table" /\ processed.type = "chart" THEN ChartToTable(processed.data)
  ELSE IF widgetType = "chart" /\ processed.type = "table" THEN TableToChart(processed.data)
  ELSE processed

(***************************************************************************)
(* DataCache: the in-memory response cache                                 *)
(***************************************************************************)

\* private defaultTTL
defaultTTL == 60 * 1000

\* `api_cache_${url}`
getCacheKey(url) == <<"api_cache_", url>>

\* this.cache.set(key, entry)
MapSet(map, key, entry) ==
  [k \in DOMAIN map \cup {key} |-> IF k = key THEN entry ELSE map[k]]

\* this.cache.delete(key)
MapDelete(map, key) == [k \in DOMAIN map \ {key} |-> map[k]]

\* the outcome of a cache call: the value returned and the map afterwards
Outcome(value, map) == [value |-> value, cache |-> map]

\* get as it would be if an entry expired at the instant timestamp + expiry
DataCache_get_ExpiresEarly(map, url, t) ==
  LET key == getCacheKey(url)
  IN IF key \notin DOMAIN map THEN Outcome(Null, map)
     ELSE IF t >= map[key].timestamp + map[key].expiry
     THEN Outcome(Null, MapDelete(map, key))
     ELSE Outcome(map[key].data, map)

\* get(url) at time t = Date.now()
DataCache_get(map, url, t) ==
  LET key == getCacheKey(url)
  IN IF key \notin DOMAIN map THEN Outcome(Null, map)
     ELSE IF t > map[key].timestamp + map[key].expiry
     THEN Outcome(Null, MapDelete(map, key))
     ELSE Outcome(map[key].data, map)

\* set(url, data, ttl) at time t = Date.now()
DataCache_set(map, url, data, ttl, t) ==
  MapSet(map, getCacheKey(url),
         [data |-> data, timestamp |-> t, expiry |-> OrElse(ttl, Num(defaultTTL)).m])

\* clear(url)
DataCache_clear(map, url) == MapDelete(map, getCacheKey(url))

\* clearAll()
DataCache_clearAll(map) == <<>>

\* has(url) at time t = Date.now()
DataCache_has(map, url, t) ==
  LET key == getCacheKey(url)
  IN IF key \notin DOMAIN map THEN FALSE
     ELSE t <= map[key].timestamp + map[key].expiry

(***************************************************************************)
(* Inputs: payloads as the fetch layer delivers them (parsed JSON, or       *)
(* undefined when nothing was fetched), widget mapper configs, adapter ids *)
(***************************************************************************)

D_0102 == <<"2", "0", "2", "4", "-", "0", "1", "-", "0", "2">>
D_0103 == <<"2", "0", "2", "4", "-", "0", "1", "-", "0", "3">>
D_0104 == <<"2", "0", "2", "4", "-", "0", "1", "-", "0", "4">>
K_TimeSeriesDaily == <<"T", "i", "m", "e", " ", "S", "e", "r", "i", "e", "s", " ", "(", "D", "a", "i", "l", "y", ")">>
K_open == <<"1", ".", " ", "o", "p", "e", "n">>
V_AAPL == <<"A", "A", "P", "L">>
V_150 == <<"1", "5", "0", ".", "0", "0">>
V_minus250 == <<"-", "2", ".", "5", "0">>
V_105 == <<"1", "0", "5">>
V_110 == <<"1", "1", "0">>
V_106 == <<"1", "0", "6">>
V_NA == <<"N", "/", "A">>
V_abc == <<"a", "b", "c">>
V_x == <<"x">>
V_Price == <<"P", "r", "i", "c", "e">>
K_a == <<"a">>
K_b == <<"b">>
K_items == <<"i", "t", "e", "m", "s">>
K_missing == <<"m", "i", "s", "s", "i", "n", "g">>
K_unknown == <<"u", "n", "k", "n", "o", "w", "n">>
P_dataItems == <<"d", "a", "t", "a", ".", "i", "t", "e", "m", "s">>
P_aDotB == <<"a", ".", "b">>

\* largest number of dates in a generated time series
MaxDates == 2

\* largest length of a generated array payload
MaxLen == 2

\* largest number of entries of a generated flat object
MaxEntries == 2

\* sequences of n entries from S whose keys are pairwise distinct
DistinctSeqs(S, n) ==
  {s \in [1..n -> S] : \A i, j \in 1..n : i # j => s[i].k # s[j].k}

\* objects with at most n entries, keys from K, values from V, in every key order
ObjectsOver(K, V, n) ==
  UNION {{Obj(s) : s \in DistinctSeqs({Entry(k, v) : k \in K, v \in V}, m)} : m \in 0..n}

\* the per-date records of a time series, well formed and malformed
EntryRecords ==
  { Null,
    Obj(<<Entry(S_close, Str(V_105))>>),
    Obj(<<Entry(K_open, Str(V_106)), Entry(S_close, Str(V_110))>>),
    Obj(<<Entry(S_close, Num(105))>>),
    Obj(<<Entry(S_close, Str(V_NA))>>) }

DateKeys == {<<D_0102, D_0103, D_0104>>[i] : i \in 1..3}

SeriesObjects == ObjectsOver(DateKeys, EntryRecords, MaxDates)

\* values a time-series-named key may hold besides a series object
SeriesOddities == {Null, Num(5), Str(V_abc), Arr(<<>>)}

QuoteObjects ==
  { Obj(sym \o price \o change) :
      sym \in {<<>>, <<Entry(S_symbol, Str(V_AAPL))>>, <<Entry(S_symbol, Str(<<>>))>>},
      price \in {<<>>, <<Entry(S_price, Str(V_150))>>, <<Entry(S_price, Str(V_NA))>>,
                 <<Entry(S_price, Num(150))>>},
      change \in {<<>>, <<Entry(S_change, Str(V_minus250))>>, <<Entry(S_change, Str(S_zero))>>,
                  <<Entry(S_change, Str(V_abc))>>, <<Entry(S_change, Num(3))>>} }

QuoteOddities == {Null, Num(0), Num(5), Str(V_abc), Arr(<<>>)}

SampleQuote ==
  Obj(<<Entry(S_symbol, Str(V_AAPL)), Entry(S_price, Str(V_150)),
        Entry(S_change, Str(V_minus250))>>)

SampleSeries ==
  Obj(<<Entry(D_0103, Obj(<<Entry(K_open, Str(V_106)), Entry(S_close, Str(V_110))>>)),
        Entry(D_0102, Obj(<<Entry(S_close, Str(V_105))>>))>>)

ScalarPayloads ==
  {Null, Undef, Num(0), Num(5), Str(<<>>), Str(V_abc), Bool(FALSE), Bool(TRUE)}

TimeSeriesPayloads ==
  {Obj(<<Entry(K_TimeSeriesDaily, s)>>) : s \in SeriesObjects \cup SeriesOddities}
  \cup {Obj(<<Entry(S_Monthly, s)>>) : s \in {SampleSeries, Null}}

QuotePayloads ==
  {Obj(<<Entry(S_GlobalQuote, q)>>) : q \in QuoteObjects \cup QuoteOddities}

\* payloads holding both envelopes, in either key order
MixedPayloads ==
  { Obj(<<Entry(K_TimeSeriesDaily, s), Entry(S_GlobalQuote, SampleQuote)>>) :
      s \in {SampleSeries, Null} }
  \cup { Obj(<<Entry(S_GlobalQuote, SampleQuote), Entry(K_TimeSeriesDaily, SampleSeries)>>) }

ArrayElements ==
  { Null, Num(1), Str(V_x),
    Obj(<<Entry(K_a, Num(1)), Entry(K_b, Str(V_x))>>),
    Obj(<<Entry(K_b, Num(2)), Entry(K_a, Null)>>) }

ArrayPayloads == UNION {{Arr(s) : s \in [1..n -> ArrayElements]} : n \in 0..MaxLen}

FlatValues ==
  { Null, Num(1), Str(V_x),
    Obj(<<Entry(K_items, Arr(<<Obj(<<Entry(K_a, Num(1))>>)>>)), Entry(K_b, Num(2))>>),
    Arr(<<Num(1), Null>>) }

FlatPayloads == ObjectsOver({K_a, K_b, S_data}, FlatValues, MaxEntries)

Payloads ==
  ScalarPayloads \cup TimeSeriesPayloads \cup QuotePayloads \cup MixedPayloads
  \cup ArrayPayloads \cup FlatPayloads

RootPaths == {Undef, Str(S_data), Str(P_dataItems), Str(K_missing), Str(S_proto), Str(P_aDotB)}

FieldMappings ==
  { Undef,
    Obj(<<Entry(S_value, Str(K_a))>>),
    Obj(<<Entry(S_value, Str(K_a)), Entry(S_label, Str(V_Price))>>),
    Obj(<<Entry(S_value, Str(K_open))>>) }

\* a config object carries the options that are set
ConfigOf(rp, fm) ==
  Obj((IF rp = Undef THEN <<>> ELSE <<Entry(S_rootPath, rp)>>)
      \o (IF fm = Undef THEN <<>> ELSE <<Entry(S_fieldMapping, fm)>>))

Configs ==
  {Undef} \cup {ConfigOf(rp, fm) : rp \in RootPaths, fm \in FieldMappings}
  \cup {Obj(<<Entry(S_rootPath, Str(<<>>)),
              Entry(S_fieldMapping, Obj(<<Entry(S_value, Str(<<>>)), Entry(S_label, Str(<<>>))>>))>>)}

AdapterIds ==
  { Undef, Str(<<>>), Str(S_alphaVantage), Str(S_genericJson), Str(K_unknown),
    Str(S_constructor), Str(S_toString), Str(S_proto) }

(***************************************************************************)
(* The calls                                                               *)
(***************************************************************************)

\* no payload is being normalized
CoreIdle ==
  /\ payload = Undef
  /\ config = Undef
  /\ adapterId = Undef

\* the clock and the cache as they are when the module is loaded
CacheIdle ==
  /\ now = 0
  /\ args = Undef
  /\ cache = <<>>
  /\ stored = <<>>

\* no hook is mounted
HookIdle ==
  /\ hook = Undef
  /\ inflight = {}
  /\ network = 0

\* the proxy has served nobody
ProxyIdle ==
  /\ rateLimitMap = <<>>
  /\ admitted = <<>>

\* no store has been created
StoreIdle ==
  /\ state = Undef
  /\ localStorage = <<>>

OutsideCoreIdle == CacheIdle /\ HookIdle /\ ProxyIdle /\ StoreIdle

\* a widget either exercises the registry with some id or feeds a payload
\* and its mapper config to the adapters and the extractor
Init ==
  /\ \/ /\ adapterId \in AdapterIds
        /\ payload = Undef
        /\ config = Undef
     \/ /\ adapterId = Undef
        /\ payload \in Payloads
        /\ config \in Configs
  /\ op = "idle"
  /\ result = Undef
  /\ OutsideCoreIdle

GetMapperCall ==
  /\ op = "idle"
  /\ op' = "getMapper"
  /\ result' = getMapper(adapterId)
  /\ UNCHANGED coreVars
  /\ UNCHANGED outsideCore

GenericTransformCall ==
  /\ op = "idle"
  /\ op' = "GenericJSONAdapter.transform"
  /\ result' = GenericJSONAdapter_transform(payload, config)
  /\ UNCHANGED coreVars
  /\ UNCHANGED outsideCore

AlphaVantageTransformCall ==
  /\ op = "idle"
  /\ op' = "AlphaVantageAdapter.transform"
  /\ result' = AlphaVantageAdapter_transform(payload, config)
  /\ UNCHANGED coreVars
  /\ UNCHANGED outsideCore

ExtractFieldsCall ==
  /\ op = "idle"
  /\ op' = "extractFields"
  /\ result' = extractFields(payload)
  /\ UNCHANGED coreVars
  /\ UNCHANGED outsideCore

Next ==
  \/ GetMapperCall
  \/ GenericTransformCall
  \/ AlphaVantageTransformCall
  \/ ExtractFieldsCall

Spec == Init /\ [][Next]_vars

(***************************************************************************)
(* The renderer of one widget: the processedData memo, then the render body *)
(***************************************************************************)

WidgetTypes == {"card", "table", "chart"}

\* mapper configs a widget carries
RenderConfigs ==
  { Undef,
    ConfigOf(Undef, Obj(<<Entry(S_value, Str(K_open))>>)),
    ConfigOf(Undef, Obj(<<Entry(S_value, Str(K_a))>>)),
    ConfigOf(Str(S_data), Undef) }

\* adapterId is widget.mapperId, config is widget.mapperConfig, payload is the
\* data the hook delivered
InitRender ==
  /\ adapterId \in AdapterIds
  /\ payload \in Payloads
  /\ config \in RenderConfigs
  /\ op = "idle"
  /\ result = Undef
  /\ OutsideCoreIdle

ProcessedDataCall ==
  /\ op = "idle"
  /\ op' = "processedData"
  /\ result' = processedData(payload, adapterId, config)
  /\ UNCHANGED coreVars
  /\ UNCHANGED outsideCore

\* the render body runs with the memo's value; an exception in the memo
\* aborts the render
RenderCall ==
  /\ op = "processedData"
  /\ result # Throw
  /\ \E widgetType \in WidgetTypes :
       result' = StandardizedView(widgetType, result)
  /\ op' = "render"
  /\ UNCHANGED coreVars
  /\ UNCHANGED outsideCore

NextRender ==
  \/ ProcessedDataCall
  \/ RenderCall

SpecRender == InitRender /\ [][NextRender]_vars

(***************************************************************************)
(* The field extractor on payloads with richer field names                 *)
(***************************************************************************)

K_high == <<"2", ".", " ", "h", "i", "g", "h">>
K_extra == <<"1", "0", ".", " ", "e", "x", "t", "r", "a">>
K_volume == <<"5", ".", " ", "v", "o", "l", "u", "m", "e">>
K_upperB == <<"B">>
K_seven == <<"7">>

\* largest number of fields of a generated record
MaxFields == 3

\* field names of a record: vendor names with a numeric prefix, plain names in
\* both cases, a purely numeric name, the empty name and the name of an
\* inherited method
FieldNames == {K_open, K_high, K_extra, K_b, K_upperB, K_seven, <<>>, S_hasOwnProperty}

\* records of scalar fields, in every key order
FieldRecords == ObjectsOver(FieldNames, {Str(V_105)}, MaxFields)

\* a later entry or element, with a field of its own
LaterRecord == Obj(<<Entry(K_volume, Str(V_110))>>)

FieldPayloads ==
  ScalarPayloads
  \cup {Obj(<<Entry(K_TimeSeriesDaily, Obj(<<Entry(D_0103, r), Entry(D_0102, LaterRecord)>>))>>) :
          r \in FieldRecords}
  \cup {Obj(<<Entry(D_0103, r), Entry(D_0102, LaterRecord)>>) : r \in FieldRecords}
  \cup {Arr(<<r, LaterRecord>>) : r \in FieldRecords}
  \cup {Obj(<<Entry(S_GlobalQuote, r)>>) : r \in FieldRecords}
  \cup FieldRecords

\* the configuration dialog hands the fetched payload to extractFields
InitFields ==
  /\ payload \in FieldPayloads
  /\ config = Undef
  /\ adapterId = Undef
  /\ op = "idle"
  /\ result = Undef
  /\ OutsideCoreIdle

NextFields == ExtractFieldsCall

SpecFields == InitFields /\ [][NextFields]_vars

(***************************************************************************)
(* The cache under calls of its methods while time passes                  *)
(***************************************************************************)

Urls == {"https://api.example/quote", "https://api.example/daily"}

\* responses a caller stores
Responses == {Obj(<<Entry(K_a, Num(1))>>), Obj(<<Entry(K_b, Num(2))>>)}

\* the ttl argument of set: omitted, zero, or a number of milliseconds
TtlArgs == {Undef, Num(0), Num(1)}

\* number of default-TTL periods the clock may run through
MaxPeriods == 1

\* milliseconds around a period boundary that the clock may stop at
MaxOffset == 1

\* the instants at which something happens
Instants ==
  {k * defaultTTL + j : k \in 0..MaxPeriods, j \in 0..MaxOffset}
  \cup {k * defaultTTL - j : k \in 1..MaxPeriods, j \in 1..MaxOffset}

\* nothing stored for a url
NoneStored == [t |-> "none"]

\* arguments of a call, and the value of Date.now() during it
Call(url, data, ttl, time) == [url |-> url, data |-> data, ttl |-> ttl, time |-> time]

InitCache ==
  /\ now = 0
  /\ args = Undef
  /\ cache = <<>>
  /\ stored = [u \in Urls |-> NoneStored]
  /\ op = "idle"
  /\ result = Undef
  /\ CoreIdle
  /\ HookIdle
  /\ ProxyIdle
  /\ StoreIdle

\* Date.now() grows between calls: the last call is over
TimePasses ==
  /\ \E t \in Instants : t > now /\ now' = t
  /\ op' = IF op = "idle" THEN "idle" ELSE "wait"
  /\ args' = Undef
  /\ result' = Undef
  /\ UNCHANGED <<cache, stored>>
  /\ UNCHANGED outsideCache

SetCall ==
  /\ \E url \in Urls, data \in Responses, ttl \in TtlArgs :
       /\ args' = Call(url, data, ttl, now)
       /\ cache' = DataCache_set(cache, url, data, ttl, now)
       /\ stored' = [stored EXCEPT ![url] = [data |-> data, time |-> now, ttl |-> ttl]]
  /\ op' = "set"
  /\ result' = Undef
  /\ UNCHANGED now
  /\ UNCHANGED outsideCache

GetCall ==
  /\ \E url \in Urls :
       /\ args' = Call(url, Undef, Undef, now)
       /\ cache' = DataCache_get(cache, url, now).cache
       /\ result' = DataCache_get(cache, url, now).value
  /\ op' = "get"
  /\ UNCHANGED <<now, stored>>
  /\ UNCHANGED outsideCache

ClearCall ==
  /\ \E url \in Urls :
       /\ args' = Call(url, Undef, Undef, now)
       /\ cache' = DataCache_clear(cache, url)
       /\ stored' = [stored EXCEPT ![url] = NoneStored]
  /\ op' = "clear"
  /\ result' = Undef
  /\ UNCHANGED now
  /\ UNCHANGED outsideCache

ClearAllCall ==
  /\ args' = Undef
  /\ cache' = DataCache_clearAll(cache)
  /\ stored' = [u \in Urls |-> NoneStored]
  /\ op' = "clearAll"
  /\ result' = Undef
  /\ UNCHANGED now
  /\ UNCHANGED outsideCache

HasCall ==
  /\ \E url \in Urls :
       /\ args' = Call(url, Undef, Undef, now)
       /\ result' = Bool(DataCache_has(cache, url, now))
  /\ op' = "has"
  /\ UNCHANGED <<now, cache, stored>>
  /\ UNCHANGED outsideCache

NextCache ==
  \/ TimePasses
  \/ SetCall
  \/ GetCall
  \/ ClearCall
  \/ ClearAllCall
  \/ HasCall

SpecCache == InitCache /\ [][NextCache]_vars

(***************************************************************************)
(* The useApiData hook of one widget                                       *)
(***************************************************************************)

S_error == <<"e", "r", "r", "o", "r">>
S_failedToFetch == <<"F", "a", "i", "l", "e", "d", " ", "t", "o", " ", "f", "e", "t", "c", "h">>
S_rateLimitExceeded == <<"R", "a", "t", "e", " ", "l", "i", "m", "i", "t", " ", "e", "x", "c", "e", "e", "d", "e", "d">>

\* the default of the refreshInterval option, in seconds
DefaultRefreshInterval == 60

\* the default of the cacheTTL option, in milliseconds
DefaultCacheTTL == 60000

\* no interval is registered
NoTimer == [t |-> "none"]

\* the hook on its first render: the options and the useState initial values
HookState(url, refreshInterval, cacheTTL, enabled) ==
  [url |-> url, refreshInterval |-> refreshInterval, cacheTTL |-> cacheTTL,
   enabled |-> enabled,
   data |-> Null, loading |-> TRUE, error |-> Null, timer |-> NoTimer]

\* a request awaited by fetchData; url and cacheTTL are those of the closure
Request(id, url, cacheTTL) == [id |-> id, url |-> url, cacheTTL |-> cacheTTL]

\* fetch rejected, or the body was no JSON
Rejected == [t |-> "rejected"]

\* what fetchData leaves behind when it returns or suspends
Fetching(h, c, issued) == [hook |-> h, cache |-> c, issued |-> issued]

\* fetchData up to its return or its first await: h is the hook, c the
\* cache, n the number of requests issued so far, t the time
fetchData(h, c, n, t) ==
  IF h.url = "" \/ ~h.enabled
    THEN Fetching([h EXCEPT !.loading = FALSE], c, {})
    ELSE LET cached == DataCache_get(c, h.url, t)
         IN  IF Truthy(cached.value)
               THEN Fetching([h EXCEPT !.data = cached.value,
                                       !.loading = FALSE,
                                       !.error = Null],
                             cached.cache, {})
               ELSE Fetching([h EXCEPT !.loading = TRUE, !.error = Null],
                             cached.cache,
                             {Request(n + 1, h.url, h.cacheTTL)})

\* the message the catch block reports for a body
ErrorMessage(json) ==
  IF json = Rejected \/ Get(json, S_error) = Throw
    THEN Str(S_failedToFetch)
    ELSE Str(ToStr(Get(json, S_error)))

\* the end of fetchData as it would be without setData(null) in the catch block
fetchData_settle_KeepsData(h, c, r, json, t) ==
  IF json = Rejected \/ Get(json, S_error) = Throw \/ Truthy(Get(json, S_error))
    THEN [hook |-> [h EXCEPT !.error = ErrorMessage(json),
                            !.loading = FALSE],
          cache |-> c]
    ELSE [hook |-> [h EXCEPT !.data = json, !.error = Null, !.loading = FALSE],
          cache |-> DataCache_set(c, r.url, json, Num(r.cacheTTL), t)]

\* fetchData from the await of request r to its end: json is the body the
\* proxy answered with
fetchData_settle(h, c, r, json, t) ==
  IF json = Rejected \/ Get(json, S_error) = Throw \/ Truthy(Get(json, S_error))
    THEN [hook |-> [h EXCEPT !.error = ErrorMessage(json),
                            !.data = Null,
                            !.loading = FALSE],
          cache |-> c]
    ELSE [hook |-> [h EXCEPT !.data = json, !.error = Null, !.loading = FALSE],
          cache |-> DataCache_set(c, r.url, json, Num(r.cacheTTL), t)]

\* the interval effect: registers a timer unless disabled or interval <= 0
IntervalEffect(h, t) ==
  [h EXCEPT !.timer = IF ~h.enabled \/ h.refreshInterval <= 0
                        THEN NoTimer
                        ELSE [due |-> t + h.refreshInterval * 1000]]

\* the timer fires again one interval later
Rearm(h) == [h EXCEPT !.timer = [due |-> h.timer.due + h.refreshInterval * 1000]]

RefreshTick_NoClear(h, c, n, t) == fetchData(Rearm(h), c, n, t)

\* the interval callback: clear the url's entry, then fetchData
RefreshTick(h, c, n, t) == fetchData(Rearm(h), DataCache_clear(c, h.url), n, t)

\* refetch(): clear the url's entry, then fetchData
refetch(h, c, n, t) == fetchData(h, DataCache_clear(c, h.url), n, t)

\* urls a widget may be configured with
HookUrls == {""} \cup Urls

\* refresh intervals a widget may be configured with, in seconds
RefreshIntervals == {-1, 0, DefaultRefreshInterval}

\* requests one hook issues in a run
MaxRequests == 2

\* the body the upstream answers request r with: it tells the request and the url
ResponseOf(r) == Obj(<<Entry(K_a, Num(r.id)), Entry(K_b, Str(r.url))>>)

\* the bodies the proxy may answer request r with
ProxyBodies(r) ==
  { ResponseOf(r),
    Obj(<<Entry(S_error, Null)>>),
    Obj(<<Entry(S_error, Str(S_rateLimitExceeded))>>),
    Rejected }

\* the hook's url and data and the number of requests issued, before a call
HookCall(h, n) == [url |-> h.url, data |-> h.data, network |-> n]

\* the state a fetchData run leaves
Fetched(f) ==
  /\ hook' = f.hook
  /\ cache' = f.cache
  /\ inflight' = inflight \cup f.issued
  /\ network' = network + Cardinality(f.issued)

InitHook ==
  /\ \E url \in HookUrls, refreshInterval \in RefreshIntervals, enabled \in BOOLEAN :
       hook = HookState(url, refreshInterval, DefaultCacheTTL, enabled)
  /\ inflight = {}
  /\ network = 0
  /\ now = 0
  /\ args = Undef
  /\ cache = <<>>
  /\ stored = <<>>
  /\ op = "idle"
  /\ result = Undef
  /\ CoreIdle
  /\ ProxyIdle
  /\ StoreIdle

\* the effects after the first render: fetchData, and the interval effect
MountEffects ==
  /\ op = "idle"
  /\ args' = HookCall(hook, network)
  /\ Fetched(fetchData(IntervalEffect(hook, now), cache, network, now))
  /\ op' = "mount"
  /\ UNCHANGED <<now, result>>
  /\ UNCHANGED outsideHook

\* the widget is re-rendered with another url: both effects run again
SetUrl ==
  /\ op # "idle"
  /\ network < MaxRequests
  /\ \E url \in HookUrls \ {hook.url} :
       /\ args' = HookCall([hook EXCEPT !.url = url], network)
       /\ Fetched(fetchData(IntervalEffect([hook EXCEPT !.url = url], now),
                            cache, network, now))
  /\ op' = "setUrl"
  /\ UNCHANGED <<now, result>>
  /\ UNCHANGED outsideHook

\* the interval timer fires
TickCall ==
  /\ op # "idle"
  /\ network < MaxRequests
  /\ hook.timer # NoTimer
  /\ now >= hook.timer.due
  /\ args' = HookCall(hook, network)
  /\ Fetched(RefreshTick(hook, cache, network, now))
  /\ op' = "tick"
  /\ UNCHANGED <<now, result>>
  /\ UNCHANGED outsideHook

\* a caller invokes refetch()
RefetchCall ==
  /\ op # "idle"
  /\ network < MaxRequests
  /\ args' = HookCall(hook, network)
  /\ Fetched(refetch(hook, cache, network, now))
  /\ op' = "refetch"
  /\ UNCHANGED <<now, result>>
  /\ UNCHANGED outsideHook

\* the proxy answers an awaited request and fetchData runs to its end
Respond ==
  /\ \E r \in inflight : \E json \in ProxyBodies(r) :
       /\ args' = HookCall(hook, network)
       /\ hook' = fetchData_settle(hook, cache, r, json, now).hook
       /\ cache' = fetchData_settle(hook, cache, r, json, now).cache
       /\ inflight' = inflight \ {r}
       /\ result' = json
  /\ op' = "respond"
  /\ UNCHANGED <<now, network>>
  /\ UNCHANGED outsideHook

\* instants at which the hook's clock is looked at: a refresh period after
\* the start, and one millisecond later
HookInstants == {k * DefaultCacheTTL + j : k \in 0..MaxPeriods, j \in 0..1}

\* time passes between two events of the hook
HookWaits ==
  /\ op # "idle"
  /\ \E t \in HookInstants : t > now /\ now' = t
  /\ op' = "wait"
  /\ args' = Undef
  /\ result' = Undef
  /\ UNCHANGED <<cache, stored>>
  /\ UNCHANGED outsideCache

NextHook ==
  \/ HookWaits
  \/ MountEffects
  \/ SetUrl
  \/ TickCall
  \/ RefetchCall
  \/ Respond

SpecHook == InitHook /\ [][NextHook]_vars

(***************************************************************************)
(* The proxy route and its rate limiter                                    *)
(***************************************************************************)

\* milliseconds a rate-limit window lasts
RATE_LIMIT_WINDOW == 60 * 1000

\* requests of one ip the limiter lets through in a window
MAX_REQUESTS_PER_WINDOW == 50

\* rateLimitMap.get(ip) found nothing
NoLimit == [t |-> "none"]

LimitOf(map, ip) == IF ip \in DOMAIN map THEN map[ip] ELSE NoLimit

\* the requests counted for an ip
CountOf(map, ip) == IF ip \in DOMAIN map THEN map[ip].count ELSE 0

\* what checkRateLimit returns and the map it leaves
Checked(allowed, map) == [allowed |-> allowed, map |-> map]

\* checkRateLimit as it would be if the limit test were count > MAX
checkRateLimit_OneMore(map, ip, t) ==
  LET limit == LimitOf(map, ip)
  IN  IF limit = NoLimit \/ t > limit.resetTime
        THEN Checked(TRUE, MapSet(map, ip, [count |-> 1,
                                             resetTime |-> t + RATE_LIMIT_WINDOW]))
        ELSE IF limit.count > MAX_REQUESTS_PER_WINDOW
          THEN Checked(FALSE, map)
          ELSE Checked(TRUE, MapSet(map, ip, [limit EXCEPT !.count = @ + 1]))

\* checkRateLimit(ip) at time t
checkRateLimit(map, ip, t) ==
  LET limit == LimitOf(map, ip)
  IN  IF limit = NoLimit \/ t > limit.resetTime
        THEN Checked(TRUE, MapSet(map, ip, [count |-> 1,
                                             resetTime |-> t + RATE_LIMIT_WINDOW]))
        ELSE IF limit.count >= MAX_REQUESTS_PER_WINDOW
          THEN Checked(FALSE, map)
          ELSE Checked(TRUE, MapSet(map, ip, [limit EXCEPT !.count = @ + 1]))

\* a request: the url parameter and the two headers; "" stands for an absent
\* one (null), which the code treats like an empty one
ProxyRequest(url, forwardedFor, realIp) ==
  [url |-> url, forwardedFor |-> forwardedFor, realIp |-> realIp]

\* x-forwarded-for || x-real-ip || "unknown"
ClientIp(req) ==
  IF req.forwardedFor # "" THEN req.forwardedFor
  ELSE IF req.realIp # "" THEN req.realIp
  ELSE "unknown"

\* new URL(url) does not throw
ParsesAsUrl(url) == url \in Urls

\* what the upstream fetch may come to: "ok", "notOk", "apiError",
\* "timeout", "failure"; those a run draws from
UpstreamOutcomes == {"ok", "timeout"}

\* the status the proxy answers with once it has contacted the upstream
UpstreamStatus(outcome) ==
  CASE outcome = "ok" -> 200
    [] outcome = "notOk" -> 404
    [] outcome = "apiError" -> 400
    [] outcome = "timeout" -> 408
    [] outcome = "failure" -> 500

\* the response, and whether the upstream API was contacted for it
Response(status, upstream) == [status |-> status, upstream |-> upstream]

\* the response of GET and the map it leaves
Served(response, map) == [response |-> response, map |-> map]

\* GET(req) at time t, when the upstream fetch comes to outcome
GET(map, req, outcome, t) ==
  IF req.url = ""
    THEN Served(Response(400, FALSE), map)
    ELSE LET checked == checkRateLimit(map, ClientIp(req), t)
         IN  IF ~checked.allowed
               THEN Served(Response(429, FALSE), checked.map)
               ELSE IF ~ParsesAsUrl(req.url)
                 THEN Served(Response(400, FALSE), checked.map)
                 ELSE Served(Response(UpstreamStatus(outcome), TRUE), checked.map)

\* the address a client sends in a header
ClientAddress == "203.0.113.7"

\* url parameters: absent, not a url, a url
UrlParams == {"", "not a url", CHOOSE url \in Urls : TRUE}

\* requests that arrive without an address header in one run
MaxUnknown == 1

\* the headers of a request: none, x-forwarded-for, x-real-ip
HeaderPairs == {<<"", "">>, <<ClientAddress, "">>, <<"", ClientAddress>>}

ProxyRequests ==
  {ProxyRequest(url, h[1], h[2]) : url \in UrlParams, h \in HeaderPairs}

\* number of rate-limit windows the clock may run through
MaxWindows == 1

\* the instants at which a request may arrive: a window boundary, or one
\* millisecond after it
ProxyInstants == {k * RATE_LIMIT_WINDOW + j : k \in 0..MaxWindows, j \in 0..1}

\* no request of the ip has been admitted
NoWindow == [t |-> "none"]

WindowOf(adm, ip) == IF ip \in DOMAIN adm THEN adm[ip] ELSE NoWindow

\* time t lies in window w: from its opening to RATE_LIMIT_WINDOW later
InWindow(w, t) == w # NoWindow /\ t <= w.opened + RATE_LIMIT_WINDOW

\* the window of an ip after one more of its requests was admitted at time t
Admit(w, t) ==
  IF InWindow(w, t) THEN [w EXCEPT !.n = @ + 1] ELSE [opened |-> t, n |-> 1]

\* the request passed the limiter
Admitted(req, response) == req.url # "" /\ response.status # 429

\* the request of a call, its ip, the time, and the ip's window before it
ProxyCall(req, time, before) ==
  [url |-> req.url, ip |-> ClientIp(req), time |-> time, before |-> before]

InitProxy ==
  /\ rateLimitMap = <<>>
  /\ admitted = <<>>
  /\ now = 0
  /\ args = Undef
  /\ op = "idle"
  /\ result = Undef
  /\ cache = <<>>
  /\ stored = <<>>
  /\ CoreIdle
  /\ HookIdle
  /\ StoreIdle

GetRequest ==
  /\ \E req \in ProxyRequests, outcome \in UpstreamOutcomes :
       /\ ClientIp(req) = "unknown" => CountOf(rateLimitMap, "unknown") < MaxUnknown
       /\ LET served == GET(rateLimitMap, req, outcome, now)
              ip == ClientIp(req)
              before == WindowOf(admitted, ip)
          IN  /\ args' = ProxyCall(req, now, before)
              /\ rateLimitMap' = served.map
              /\ result' = served.response
              /\ admitted' = IF Admitted(req, served.response)
                               THEN MapSet(admitted, ip, Admit(before, now))
                               ELSE admitted
  /\ op' = "GET"
  /\ UNCHANGED now
  /\ UNCHANGED outsideProxy

\* the request has been answered, and time passes until the next one
ProxyWaits ==
  /\ op = "GET"
  /\ \E t \in ProxyInstants : t > now /\ now' = t
  /\ op' = "idle"
  /\ args' = Undef
  /\ result' = Undef
  /\ UNCHANGED proxyVars
  /\ UNCHANGED outsideProxy

NextProxy ==
  \/ ProxyWaits
  \/ GetRequest

SpecProxy == InitProxy /\ [][NextProxy]_vars

(***************************************************************************)
(* The widgets slice of the store and its copy in localStorage             *)
(***************************************************************************)

S_id == <<"i", "d">>
S_title == <<"t", "i", "t", "l", "e">>
S_position == <<"p", "o", "s", "i", "t", "i", "o", "n">>
S_w == <<"w">>
S_h == <<"h">>
S_x == <<"x">>
S_y == <<"y">>
S_widgets == <<"w", "i", "d", "g", "e", "t", "s">>
S_theme == <<"t", "h", "e", "m", "e">>
S_dark == <<"d", "a", "r", "k">>
S_light == <<"l", "i", "g", "h", "t">>

\* the number Infinity
Infinity == [t |-> "infinity"]

\* the document JSON.stringify(v) writes, as the value JSON.parse reads back
\* from it: a number that is not finite is written as null, a member that
\* is undefined or a function is left out, such an array element is null
RECURSIVE JSONdocument(_)
JSONdocument(v) ==
  CASE v.t \in {"nan", "infinity"} -> Null
    [] v.t = "obj" ->
         LET kept == SelectSeq(v.e, LAMBDA e : e.v.t \notin {"undefined", "fn"})
         IN  Obj([i \in 1..Len(kept) |-> Entry(kept[i].k, JSONdocument(kept[i].v))])
    [] v.t = "arr" ->
         Arr([i \in 1..Len(v.a) |->
                IF v.a[i].t \in {"undefined", "fn"} THEN Null ELSE JSONdocument(v.a[i])])
    [] OTHER -> v

\* the key the slice saves under
StorageKey == "dashboard-state"

\* localStorage.getItem(key)
getItem(storage, key) == IF key \in DOMAIN storage THEN storage[key] ELSE Null

\* the WidgetState with the given widget list and theme
WidgetState(widgets, theme) == [widgets |-> widgets, theme |-> theme]

\* the state as the object JSON.stringify is given
StateObject(st) == Obj(<<Entry(S_widgets, st.widgets), Entry(S_theme, st.theme)>>)

\* localStorage.setItem("dashboard-state", JSON.stringify(state))
SaveState(storage, st) == MapSet(storage, StorageKey, JSONdocument(StateObject(st)))

loadInitialState(storage) ==
  LET parsed == getItem(storage, StorageKey)
  IN  IF parsed = Null
        THEN WidgetState(Arr(<<>>), Str(S_dark))
        ELSE WidgetState(OrElse(Get(parsed, S_widgets), Arr(<<>>)),
                         OrElse(Get(parsed, S_theme), Str(S_dark)))

\* { ...o, ...patch }
RECURSIVE Spread(_, _)
Spread(o, entries) ==
  IF entries = <<>> THEN o
  ELSE Spread(SetProp(o, Head(entries).k, Head(entries).v), Tail(entries))

\* state.widgets.forEach((widget, index) => { widget.position = index; })
Renumber(ws) == [i \in 1..Len(ws) |-> SetProp(ws[i], S_position, Num(i - 1))]

\* the state a reducer leaves and whether it reached its setItem call
Reduced(st, saved) == [state |-> st, saved |-> saved]

addWidget(st, widget) ==
  Reduced(
    [st EXCEPT !.widgets =
       Arr(Append(st.widgets.a,
                  Spread(widget,
                         <<Entry(S_position, Num(Len(st.widgets.a))),
                           Entry(S_w, OrElse(Get(widget, S_w), Num(1))),
                           Entry(S_h, OrElse(Get(widget, S_h), Num(4))),
                           Entry(S_x, OrElse(Get(widget, S_x), Num(0))),
                           Entry(S_y, OrElse(Get(widget, S_y), Infinity))>>)))],
    TRUE)

\* state.widgets.findIndex(w => w.id === id), counted from 1; 0 when none
FindIndex(ws, id) ==
  IF \E i \in 1..Len(ws) : Get(ws[i], S_id) = id
    THEN CHOOSE i \in 1..Len(ws) :
           /\ Get(ws[i], S_id) = id
           /\ \A j \in 1..(i - 1) : Get(ws[j], S_id) # id
    ELSE 0

\* one item of a layout applied to the widget list
ApplyItem(ws, item) ==
  LET i == FindIndex(ws, Get(item, S_id))
  IN  IF i = 0 THEN ws
      ELSE [ws EXCEPT ![i] =
              Spread(ws[i], <<Entry(S_x, Get(item, S_x)), Entry(S_y, Get(item, S_y)),
                              Entry(S_w, Get(item, S_w)), Entry(S_h, Get(item, S_h))>>)]

RECURSIVE ApplyItems(_, _)
ApplyItems(ws, items) ==
  IF items = <<>> THEN ws ELSE ApplyItems(ApplyItem(ws, Head(items)), Tail(items))

updateLayout(st, items) ==
  Reduced([st EXCEPT !.widgets = Arr(ApplyItems(st.widgets.a, items))], TRUE)

\* removeWidget as it would be without the loop that reorders the positions
removeWidget_NoRenumber(st, id) ==
  Reduced(
    [st EXCEPT !.widgets =
       Arr(SelectSeq(st.widgets.a, LAMBDA w : Get(w, S_id) # id))],
    TRUE)

removeWidget(st, id) ==
  Reduced(
    [st EXCEPT !.widgets =
       Arr(Renumber(SelectSeq(st.widgets.a, LAMBDA w : Get(w, S_id) # id)))],
    TRUE)

updateWidget(st, widget) ==
  LET index == FindIndex(st.widgets.a, Get(widget, S_id))
  IN  IF index = 0 THEN Reduced(st, FALSE)
      ELSE Reduced(
             [st EXCEPT !.widgets =
                Arr([st.widgets.a EXCEPT ![index] = Spread(@, widget.e)])],
             TRUE)

\* ws.splice(index, 0, w), with index counted from 0
InsertAt(ws, index, w) ==
  LET at == IF index > Len(ws) THEN Len(ws) ELSE index
  IN  SubSeq(ws, 1, at) \o <<w>> \o SubSeq(ws, at + 1, Len(ws))

\* ws.splice(index, 1), with index counted from 0
RemoveAt(ws, index) == SubSeq(ws, 1, index) \o SubSeq(ws, index + 2, Len(ws))

\* with startIndex past the end nothing is removed, undefined is inserted and
\* the position loop throws on it: the reducer leaves the state as it was
reorderWidgets(st, startIndex, endIndex) ==
  IF startIndex >= Len(st.widgets.a) THEN Reduced(st, FALSE)
  ELSE Reduced(
         [st EXCEPT !.widgets =
            Arr(Renumber(InsertAt(RemoveAt(st.widgets.a, startIndex), endIndex,
                                  st.widgets.a[startIndex + 1])))],
         TRUE)

setTheme(st, theme) == Reduced([st EXCEPT !.theme = theme], TRUE)

loadDashboard(st, dashboard) ==
  Reduced(WidgetState(dashboard.widgets, dashboard.theme), TRUE)

\* widgets a dashboard holds in a run
MaxWidgets == 2

WidgetIds == {Str(<<"w", "1">>), Str(<<"w", "2">>)}

WidgetTitles == {Str(<<"A">>), Str(<<"B">>)}

\* the layout of a widget in the grid: x, y, w, h
Layouts == {<<0, 0, 1, 4>>, <<1, 4, 2, 2>>}

\* the config the modal hands to addWidget and updateWidget
WidgetConfigs ==
  {Obj(<<Entry(S_id, id), Entry(S_title, title)>>) : id \in WidgetIds, title \in WidgetTitles}

\* a widget as an exported dashboard file holds it
PlacedWidget(cfg, position, l) ==
  Spread(cfg, <<Entry(S_position, Num(position)), Entry(S_w, Num(l[3])),
                Entry(S_h, Num(l[4])), Entry(S_x, Num(l[1])), Entry(S_y, Num(l[2]))>>)

\* an item of the layout the grid reports
LayoutItem(id, l) ==
  Obj(<<Entry(S_id, id), Entry(S_x, Num(l[1])), Entry(S_y, Num(l[2])),
        Entry(S_w, Num(l[3])), Entry(S_h, Num(l[4]))>>)

\* the layouts the grid may report: one item per id, in either order
LayoutReports ==
  {[i \in 1..2 |-> LayoutItem(ids[i], f[ids[i]])] :
     ids \in {s \in [1..2 -> WidgetIds] : s[1] # s[2]}, f \in [WidgetIds -> Layouts]}

Themes == {Str(S_dark), Str(S_light)}

\* the dashboards an imported file may hold
Imports ==
  {WidgetState(Arr(<<>>), theme) : theme \in Themes}
  \cup {WidgetState(Arr(<<PlacedWidget(cfg, 0, l)>>), theme) :
          cfg \in WidgetConfigs, l \in Layouts, theme \in Themes}

\* a reducer ran: the store takes its state and, when it reached setItem,
\* localStorage takes the document
Dispatched(reduced) ==
  /\ state' = reduced.state
  /\ localStorage' = IF reduced.saved THEN SaveState(localStorage, reduced.state)
                     ELSE localStorage

InitStore ==
  /\ localStorage = <<>>
  /\ state = loadInitialState(<<>>)
  /\ op = "idle"
  /\ result = Undef
  /\ CoreIdle
  /\ CacheIdle
  /\ HookIdle
  /\ ProxyIdle

AddWidgetCall ==
  /\ Len(state.widgets.a) < MaxWidgets
  /\ \E widget \in WidgetConfigs : Dispatched(addWidget(state, widget))
  /\ op' = "addWidget"
  /\ args' = Undef
  /\ UNCHANGED result
  /\ UNCHANGED outsideStore

UpdateLayoutCall ==
  /\ \E items \in LayoutReports : Dispatched(updateLayout(state, items))
  /\ op' = "updateLayout"
  /\ args' = Undef
  /\ UNCHANGED result
  /\ UNCHANGED outsideStore

RemoveWidgetCall ==
  /\ \E id \in WidgetIds : Dispatched(removeWidget(state, id))
  /\ op' = "removeWidget"
  /\ args' = Undef
  /\ UNCHANGED result
  /\ UNCHANGED outsideStore

UpdateWidgetCall ==
  /\ \E widget \in WidgetConfigs :
       /\ args' = widget
       /\ Dispatched(updateWidget(state, widget))
  /\ op' = "updateWidget"
  /\ UNCHANGED result
  /\ UNCHANGED outsideStore

ReorderWidgetsCall ==
  /\ \E startIndex \in 0..MaxWidgets, endIndex \in 0..MaxWidgets :
       Dispatched(reorderWidgets(state, startIndex, endIndex))
  /\ op' = "reorderWidgets"
  /\ args' = Undef
  /\ UNCHANGED result
  /\ UNCHANGED outsideStore

SetThemeCall ==
  /\ \E theme \in Themes : Dispatched(setTheme(state, theme))
  /\ op' = "setTheme"
  /\ args' = Undef
  /\ UNCHANGED result
  /\ UNCHANGED outsideStore

LoadDashboardCall ==
  /\ \E dashboard \in Imports : Dispatched(loadDashboard(state, dashboard))
  /\ op' = "loadDashboard"
  /\ args' = Undef
  /\ UNCHANGED result
  /\ UNCHANGED outsideStore

\* the page is refreshed: the slice starts from what localStorage holds
PageRefresh ==
  /\ state' = loadInitialState(localStorage)
  /\ op' = "refresh"
  /\ args' = Undef
  /\ UNCHANGED <<localStorage, result>>
  /\ UNCHANGED outsideStore

NextStore ==
  \/ AddWidgetCall
  \/ UpdateLayoutCall
  \/ RemoveWidgetCall
  \/ UpdateWidgetCall
  \/ ReorderWidgetsCall
  \/ SetThemeCall
  \/ LoadDashboardCall
  \/ PageRefresh

SpecStore == InitStore /\ [][NextStore]_vars

\* the dashboard under the reducers the page dispatches while it is edited,
\* from the empty dashboard
NextPositions ==
  \/ AddWidgetCall
  \/ UpdateLayoutCall
  \/ RemoveWidgetCall
  \/ UpdateWidgetCall
  \/ ReorderWidgetsCall
  \/ SetThemeCall

SpecPositions == InitStore /\ [][NextPositions]_vars

(***************************************************************************)
(* Properties                                                              *)
(***************************************************************************)

IsAdapter(v) == v.t = "adapter"

RegisteredIds == {AlphaVantageAdapter.id, GenericJSONAdapter.id}

\* C1: getMapper(id) always returns an adapter: the registered adapter whose
\* id equals the argument, and the generic JSON adapter for every other id.
C1_GetMapperTotal ==
  op = "getMapper" =>
    /\ IsAdapter(result)
    /\ IF adapterId.t = "str" /\ adapterId.s \in RegisteredIds
       THEN result.id = adapterId.s
       ELSE result = GenericJSONAdapter

TransformOps == {"GenericJSONAdapter.transform", "AlphaVantageAdapter.transform"}

\* C2: neither adapter's transform nor extractFields ever throws, whatever
\* the payload and the config.
C2_NeverThrows ==
  op \in TransformOps \cup {"extractFields"} => result # Throw

IsScalarPayload(v) == v.t \in {"null", "undefined", "num", "str", "bool"}

\* C3: for both adapters and every config, transform returns null when the
\* payload is null, undefined, a number, a string or a boolean.
C3_ScalarGivesNull ==
  op \in TransformOps /\ IsScalarPayload(payload) => result = Null

C3_Witness ==
  /\ op = "GenericJSONAdapter.transform"
  /\ payload = Str(V_abc)
  /\ ConfigRootPath(config) = Str(S_proto)
  /\ result = Null

\* the own keys of a value in key order (none for a value that is not an object)
KeySeqOf(v) == IF v.t = "obj" THEN [i \in 1..Len(v.e) |-> v.e[i].k] ELSE <<>>

\* the generic adapter got past its payload check and works on an array
WorksOnArray == Truthy(payload) /\ GenericTarget(payload, config).t = "arr"

\* C4: when the generic adapter works on an array the result is a table:
\* empty headers and rows for the empty array, else the first element's key
\* sequence as headers and the array itself as rows.
C4_ArrayAlwaysTable ==
  op = "GenericJSONAdapter.transform" /\ WorksOnArray =>
    LET arr == GenericTarget(payload, config).a
    IN /\ result.t = "std"
       /\ result.type = "table"
       /\ result.data.rows = arr
       /\ arr = <<>> => result.data.headers = <<>>
       /\ (arr # <<>> /\ arr[1].t = "obj") => result.data.headers = KeySeqOf(arr[1])

\* an own property of an object or an array
OwnProp(v, k) ==
  CASE v.t = "obj" -> HasOwn(v, k)
    [] v.t = "arr" -> (IsIndex(k) /\ StrToNat(k) < Len(v.a)) \/ k = S_length
    [] OTHER -> FALSE

\* every segment names an own property of the value reached so far
RECURSIVE PathResolves(_, _)
PathResolves(v, parts) ==
  parts = <<>> \/ (OwnProp(v, Head(parts)) /\ PathResolves(Get(v, Head(parts)), Tail(parts)))

RECURSIVE PathValue(_, _)
PathValue(v, parts) == IF parts = <<>> THEN v ELSE PathValue(Get(v, Head(parts)), Tail(parts))

\* the config without its rootPath option
WithoutRootPath(cfg) == Obj(SelectSeq(cfg.e, LAMBDA e : e.k # S_rootPath))

HasRootPath == config # Undef /\ Truthy(ConfigRootPath(config))

\* C5: with rootPath set the generic adapter returns null when a segment is
\* missing or reached through a non-object, and otherwise what it returns for
\* the resolved sub-value under the config without rootPath.
C5_RootPathResolution ==
  op = "GenericJSONAdapter.transform" /\ HasRootPath =>
    LET parts == Split(ConfigRootPath(config).s, ".")
    IN IF PathResolves(payload, parts)
       THEN result = GenericJSONAdapter_transform(PathValue(payload, parts), WithoutRootPath(config))
       ELSE result = Null

\* the generic adapter got past its payload check and works on a plain object
WorksOnObject == Truthy(payload) /\ GenericTarget(payload, config).t = "obj"

\* the own field of an object, undefined when the object has no such key
FieldOf(o, k) == IF o.t = "obj" /\ HasOwn(o, k) THEN OwnVal(o, k) ELSE Undef

IsNonEmptyStr(v) == v.t = "str" /\ v.s # <<>>

DescribedValue(v) == IF v.t \in {"obj", "arr"} THEN Str(Stringify(v)) ELSE v

\* C7: when the generic adapter works on a plain object and no
\* fieldMapping.value is configured, the result is a table with headers
\* Key, Value and one row per own entry in key order; an object value is
\* serialized to a string and a scalar value, null included, is unchanged.
C7_KeyValueTable ==
  (/\ op = "GenericJSONAdapter.transform"
   /\ WorksOnObject
   /\ ~Truthy(ConfigValue(config))) =>
    LET target == GenericTarget(payload, config)
    IN /\ result.t = "std"
       /\ result.type = "table"
       /\ result.data.headers = <<S_Key, S_Value>>
       /\ result.data.rows =
            [i \in 1..Len(target.e) |->
               Obj(<<Entry(S_Key, Str(target.e[i].k)),
                     Entry(S_Value, DescribedValue(target.e[i].v))>>)]

\* the payload is an object with a key naming a time series, and that key
HasSeriesKey == payload.t = "obj" /\ \E i \in 1..Len(payload.e) : IsTimeSeriesKey(payload.e[i].k)

FirstSeriesKey ==
  payload.e[CHOOSE i \in 1..Len(payload.e) :
              /\ IsTimeSeriesKey(payload.e[i].k)
              /\ \A j \in 1..(i - 1) : ~IsTimeSeriesKey(payload.e[j].k)].k

\* ascending code-unit order without repetition
IsAscending(s) == \A i \in 1..(Len(s) - 1) : StrLess(s[i], s[i + 1])

SameElements(s, u) == {s[i] : i \in 1..Len(s)} = {u[i] : i \in 1..Len(u)} /\ Len(s) = Len(u)

\* the field the chart reads: config.fieldMapping.value, by default "4. close"
ChartField == IF IsNonEmptyStr(ConfigValue(config)) THEN ConfigValue(config) ELSE Str(S_close)

\* the number a record's field stands for: parsed when it is a string, else 0
FieldNumber(record, k) ==
  IF FieldOf(record, k).t = "str" THEN ParseFloatStr(FieldOf(record, k).s) ELSE Num(0)

SpecExampleChart ==
  Std("chart", [labels |-> <<D_0102, D_0103>>,
                datasets |-> <<[label |-> Str(S_close), data |-> <<Num(105), Num(110)>>]>>])

\* C8: for a payload with a time-series-named key the Alpha Vantage adapter
\* returns a chart: labels are the series' keys in ascending order, the one
\* dataset is labelled by the configured field (default "4. close") and its
\* i-th value is the number parsed from that field of the record under
\* labels[i]; the two-day example gives 105 and 110.
C8_TimeSeriesChart ==
  op = "AlphaVantageAdapter.transform" /\ HasSeriesKey =>
    LET series == OwnVal(payload, FirstSeriesKey)
    IN /\ result.t = "std"
       /\ result.type = "chart"
       /\ SameElements(result.data.labels, ObjectKeys(series))
       /\ IsAscending(result.data.labels)
       /\ Len(result.data.datasets) = 1
       /\ result.data.datasets[1].label = ChartField
       /\ Len(result.data.datasets[1].data) = Len(result.data.labels)
       /\ \A i \in 1..Len(result.data.labels) :
            result.data.datasets[1].data[i] =
              FieldNumber(Get(series, result.data.labels[i]), ChartField.s)
       /\ (series = SampleSeries /\ ChartField = Str(S_close)) => result = SpecExampleChart

HasQuoteKey == payload.t = "obj" /\ HasOwn(payload, S_GlobalQuote)

IsMetric(r) == r.t = "std" /\ r.type = "metric"

\* the number a quote field stands for: parsed, 0 when missing or empty
QuoteNumber(quote, k) ==
  IF Truthy(FieldOf(quote, k)) THEN parseFloat(FieldOf(quote, k)) ELSE Num(0)

\* the metric the quote branch is described to build
QuoteMetric(quote) ==
  [label |-> IF Truthy(FieldOf(quote, S_symbol)) THEN FieldOf(quote, S_symbol) ELSE Str(S_Unknown),
   value |-> QuoteNumber(quote, S_price),
   change |-> QuoteNumber(quote, S_change),
   changeType |-> IF QuoteNumber(quote, S_change).t = "num" /\ QuoteNumber(quote, S_change).m >= 0
                  THEN "positive" ELSE "negative"]

\* C9 as stated: a payload with no time-series-named key and a "Global Quote"
\* key gives a metric built from the quote; with neither envelope the result
\* is null; a time-series-named key takes precedence over "Global Quote".
C9_QuoteKeyGivesMetric ==
  op = "AlphaVantageAdapter.transform" /\ payload.t = "obj" =>
    /\ (~HasSeriesKey /\ HasQuoteKey) =>
          (IsMetric(result) /\ result.data = QuoteMetric(OwnVal(payload, S_GlobalQuote)))
    /\ (~HasSeriesKey /\ ~HasQuoteKey) => result = Null
    /\ HasSeriesKey => ~IsMetric(result)

\* C9 amended: the metric is built when the "Global Quote" key holds a truthy
\* value (label "Unknown" and numbers 0 for missing or empty fields,
\* changeType positive exactly when the parsed change is >= 0); the result is
\* null when the key is absent or holds a falsy value such as null; a
\* time-series-named key takes precedence over "Global Quote".
C9_TruthyQuoteGivesMetric ==
  op = "AlphaVantageAdapter.transform" /\ payload.t = "obj" =>
    /\ (~HasSeriesKey /\ HasQuoteKey /\ Truthy(OwnVal(payload, S_GlobalQuote))) =>
          (IsMetric(result) /\ result.data = QuoteMetric(OwnVal(payload, S_GlobalQuote)))
    /\ (~HasSeriesKey /\ HasQuoteKey /\ ~Truthy(OwnVal(payload, S_GlobalQuote))) => result = Null
    /\ (~HasSeriesKey /\ ~HasQuoteKey) => result = Null
    /\ HasSeriesKey => ~IsMetric(result)

C9_Witness ==
  /\ op = "AlphaVantageAdapter.transform"
  /\ payload = Obj(<<Entry(S_GlobalQuote, SampleQuote)>>)
  /\ result = Std("metric", [label |-> Str(V_AAPL), value |-> Num(150),
                             change |-> Dec(0 - 25, 1), changeType |-> "negative"])

\* a source field that is missing, not a string, or a string that does not
\* parse as a number
Unparseable(v) == v.t # "str" \/ ParseFloatStr(v.s) = NaN

\* C10: every chart data point and every metric value and change is a real
\* number, and is 0 when the source field is missing, is not a string or
\* cannot be parsed as a number.
C10_ZeroDefault ==
  op = "AlphaVantageAdapter.transform" /\ result.t = "std" =>
    /\ result.type = "chart" =>
         \A i \in 1..Len(result.data.labels) :
            LET point == result.data.datasets[1].data[i]
                field == FieldOf(Get(OwnVal(payload, FirstSeriesKey), result.data.labels[i]),
                                 ChartField.s)
            IN point.t = "num" /\ (Unparseable(field) => point = Num(0))
    /\ result.type = "metric" =>
         \A k \in {S_price, S_change} :
            LET number == IF k = S_price THEN result.data.value ELSE result.data.change
                field == FieldOf(OwnVal(payload, S_GlobalQuote), k)
            IN number.t = "num" /\ (Unparseable(field) => number = Num(0))

(***************************************************************************)
(* C11  chart results: every dataset has one value per label                *)
(***************************************************************************)

IsChart(r) == r.t = "std" /\ r.type = "chart"

DatasetsMatchLabels(chartData) ==
  \A j \in 1..Len(chartData.datasets) :
     Len(chartData.datasets[j].data) = Len(chartData.labels)

\* C11: in every chart result, whether the resolved adapter's transform
\* produced it or the render body converted a table into it, each dataset's
\* data sequence has exactly as many entries as the labels sequence.
C11_DatasetLengths ==
  IsChart(result) => DatasetsMatchLabels(result.data)

\* a table of two rows has been converted to a chart with two labels
C11_Witness ==
  /\ op = "render"
  /\ IsChart(result)
  /\ Len(result.data.labels) = 2
  /\ Len(result.data.datasets) >= 1
  /\ processedData(payload, adapterId, config).type = "table"

(***************************************************************************)
(* C12  time series: the first record's field names in natural order        *)
(***************************************************************************)

\* the record of the first entry of the series found in the payload
FirstRecord ==
  LET series == findTimeSeries(payload).data
  IN Get(series, ObjectKeys(series)[1])

IsTimeSeriesPayload == findTimeSeries(payload) # Null /\ IsPlainObject(FirstRecord)

\* a before b in natural order: smaller leading integer, then lexicographic
NaturalLess(a, b) ==
  \/ LeadingInt(a) < LeadingInt(b)
  \/ LeadingInt(a) = LeadingInt(b) /\ StrLess(a, b)

IsList(r) == r.t = "arr"

ElementsOf(seq) == {seq[i] : i \in 1..Len(seq)}

\* C12: for a time-series payload extractFields returns exactly the field
\* names of the first entry's record, ordered by leading integer (0 when the
\* name has none) and then lexicographically by the whole name.
C12_NaturalOrderFields ==
  (op = "extractFields" /\ IsTimeSeriesPayload) =>
    /\ IsList(result)
    /\ Len(result.a) = Len(ObjectKeys(FirstRecord))
    /\ ElementsOf(Strings(result)) = ElementsOf(ObjectKeys(FirstRecord))
    /\ \A i, j \in 1..Len(result.a) :
         i < j => NaturalLess(result.a[i].s, result.a[j].s)

(***************************************************************************)
(* C13  array of records: the first element's keys                          *)
(***************************************************************************)

IsRecordArray(v) ==
  /\ IsArray(v)
  /\ Len(v.a) > 0
  /\ \A i \in 1..Len(v.a) : IsPlainObject(v.a[i])

\* C13: for a non-empty array of records extractFields returns the first
\* element's own keys without the purely numeric ones, in plain
\* lexicographic order (so keys of later elements only are not listed).
C13_ArrayFields ==
  (op = "extractFields" /\ IsRecordArray(payload)) =>
    /\ IsList(result)
    /\ Strings(result) = SortStrings(SelectSeq(ObjectKeys(payload.a[1]), NotPureDigits))

(***************************************************************************)
(* C14  every produced field name is non-empty and not purely numeric       *)
(***************************************************************************)

IsObjectPayload(v) == TypeOf(v) = "object" /\ v # Null

\* C14: every element of a list extractFields returns is a non-empty string
\* that is not a pure digit sequence, and for a payload that is not an
\* object the list is empty.
C14_FieldNamesWellFormed ==
  (op = "extractFields" /\ IsList(result)) =>
    /\ \A i \in 1..Len(result.a) :
         /\ result.a[i].t = "str"
         /\ result.a[i].s # <<>>
         /\ \E c \in 1..Len(result.a[i].s) : ~IsDigit(result.a[i].s[c])
    /\ ~IsObjectPayload(payload) => result.a = <<>>

\* a record with a purely numeric name and the empty name besides a proper
\* one: the list holds the proper name only
C14_Witness ==
  /\ op = "extractFields"
  /\ IsTimeSeriesPayload
  /\ HasOwn(FirstRecord, K_seven)
  /\ HasOwn(FirstRecord, <<>>)
  /\ IsList(result)
  /\ Len(result.a) = 1

(***************************************************************************)
(* C15  processed data: the adapter's result, else the fallback             *)
(***************************************************************************)

NamesAdapter == Truthy(adapterId)

\* the result of the adapter the widget's id resolves to: the registered
\* adapter of that id, the generic adapter for every other id
ResolvedTransform ==
  IF adapterId = Str(AlphaVantageAdapter.id)
  THEN AlphaVantageAdapter_transform(payload, config)
  ELSE GenericJSONAdapter_transform(payload, config)

\* a key with a quote-like name holding a non-array object
IsQuoteKey(v, k) == Includes(Lower(k), S_quote) /\ IsPlainObject(Get(v, k))

HasQuoteLikeKey(v) == \E i \in 1..Len(ObjectKeys(v)) : IsQuoteKey(v, ObjectKeys(v)[i])

\* the classification in the fixed order time series, quote, array, object
InFallbackOrder(r, v) ==
  /\ r.t = "classified"
  /\ r.type = "timeSeries" <=> findTimeSeries(v) # Null
  /\ r.type = "timeSeries" => r.key = findTimeSeries(v).key /\ r.data = findTimeSeries(v).data
  /\ r.type = "quote" <=> (findTimeSeries(v) = Null /\ HasQuoteLikeKey(v))
  /\ r.type = "quote" => IsQuoteKey(v, r.key) /\ r.data = Get(v, r.key)
  /\ r.type = "array" <=> (findTimeSeries(v) = Null /\ ~HasQuoteLikeKey(v) /\ IsArray(v))
  /\ r.type \in {"array", "object"} => r.data = v
  /\ r.type \in {"timeSeries", "quote", "array", "object"}

\* C15: for a widget that names an adapter the processed data is the
\* non-null result of the resolved adapter's transform, unchanged; when that
\* result is null it is the fallback classification of the payload in the
\* order time series, quote, array, object; it is null only for an absent
\* payload or a scalar that is not an object.
C15_AdapterThenFallback ==
  (op = "processedData" /\ NamesAdapter) =>
    /\ result # Throw
    /\ (Truthy(payload) /\ ResolvedTransform # Null) => result = ResolvedTransform
    /\ (Truthy(payload) /\ ResolvedTransform = Null /\ IsObjectPayload(payload))
         => InFallbackOrder(result, payload)
    /\ result = Null => ~IsObjectPayload(payload)
    /\ ~Truthy(payload) => result = Null

(***************************************************************************)
(* C17  lifetime of a cached response                                       *)
(***************************************************************************)

\* the TTL in effect for a ttl argument: one minute when omitted or zero
EffectiveTTL(ttl) == IF ttl = Undef \/ ttl = Num(0) THEN 60000 ELSE ttl.m

\* what was last stored for the url of the last call, if not cleared since
LastStored == stored[args.url]

\* C17: a response stored for a url at time t with TTL d (one minute when no
\* TTL or a zero TTL is given) is returned by get(url) at every time up to
\* and including t + d and never after it; the first get after expiry
\* removes the entry; after clear(url) or clearAll() get(url) returns null.
C17_CacheLifetime ==
  op = "get" =>
    /\ LastStored = NoneStored => result = Null
    /\ (LastStored # NoneStored /\ args.time <= LastStored.time + EffectiveTTL(LastStored.ttl))
         => result = LastStored.data
    /\ (LastStored # NoneStored /\ args.time > LastStored.time + EffectiveTTL(LastStored.ttl))
         => (result = Null /\ getCacheKey(args.url) \notin DOMAIN cache)

\* a response stored with a zero TTL is returned exactly one minute later
C17_Witness ==
  /\ op = "get"
  /\ LastStored # NoneStored
  /\ LastStored.ttl = Num(0)
  /\ args.time = LastStored.time + 60000
  /\ result = LastStored.data

(***************************************************************************)
(* C18: refreshing bypasses the cache                                      *)
(***************************************************************************)

\* the last step was an interval tick or a refetch() call
IsRefresh == op \in {"tick", "refetch"}

\* no interval is registered when the hook is disabled or its interval is
\* zero or negative
NoTimerWhenOff ==
  (op # "idle" /\ (~hook.enabled \/ hook.refreshInterval <= 0)) => hook.timer = NoTimer

\* the refresh left no cache entry for the url and did not serve the data
\* from the cache
RefreshClears ==
  /\ getCacheKey(args.url) \notin DOMAIN cache
  /\ hook.data = args.data

\* C18 as stated: every interval tick and every refetch() clears the cache
\* entry of the hook's url, so the fetch that follows always issues a request
\* through the proxy and never serves a cached response; no periodic refresh
\* is scheduled when enabled is false or refreshInterval <= 0
C18_RefreshAlwaysRequests ==
  /\ NoTimerWhenOff
  /\ IsRefresh => (RefreshClears /\ network = args.network + 1)

\* C18 amended: every interval tick and every refetch() clears the cache
\* entry of the hook's url and never serves a cached response; the fetch that
\* follows issues a request through the proxy when the url is non-empty and
\* the hook is enabled, and issues none otherwise; no periodic refresh is
\* scheduled when enabled is false or refreshInterval <= 0
C18_EnabledRefreshRequests ==
  /\ NoTimerWhenOff
  /\ IsRefresh =>
       /\ RefreshClears
       /\ (args.url # "" /\ hook.enabled) => network = args.network + 1
       /\ (args.url = "" \/ ~hook.enabled) => network = args.network

\* a tick one interval after mounting, while the first response was still
\* cached, has issued the second request
C18_Witness ==
  /\ op = "tick"
  /\ now = DefaultRefreshInterval * 1000
  /\ args.data = ResponseOf(Request(1, args.url, DefaultCacheTTL))
  /\ network = 2
  /\ \E r \in inflight : r.id = 2 /\ r.url = hook.url

(***************************************************************************)
(* C19: the proxy's rate limit                                             *)
(***************************************************************************)

\* the window had its 50 admitted requests when the last request arrived
WindowFull == InWindow(args.before, args.time) /\ args.before.n >= MAX_REQUESTS_PER_WINDOW

\* no window of any ip holds more than 50 admitted requests, and the
\* limiter's count and reset time are those of the window
LimiterKeepsWindows ==
  \A ip \in DOMAIN admitted :
    /\ admitted[ip].n <= MAX_REQUESTS_PER_WINDOW
    /\ ip \in DOMAIN rateLimitMap
    /\ rateLimitMap[ip].count = admitted[ip].n
    /\ rateLimitMap[ip].resetTime = admitted[ip].opened + RATE_LIMIT_WINDOW

\* C19 as stated: per ip at most 50 requests are admitted in a window of 60
\* seconds that opens at the first admitted request; every further request
\* inside the window is answered 429 without contacting the upstream; the
\* count restarts at 1 with the first request after the window has elapsed
C19_EveryRequestLimited ==
  /\ LimiterKeepsWindows
  /\ op = "GET" =>
       /\ WindowFull => result = Response(429, FALSE)
       /\ (args.before # NoWindow /\ ~InWindow(args.before, args.time)) =>
            CountOf(rateLimitMap, args.ip) = 1

\* C19 amended: the same for the requests that carry a url parameter; a
\* request without one is answered 400 before the limiter runs, is not
\* counted and does not contact the upstream
C19_UrlRequestsLimited ==
  /\ LimiterKeepsWindows
  /\ (op = "GET" /\ args.url # "") =>
       /\ WindowFull =>
            /\ result = Response(429, FALSE)
            /\ WindowOf(admitted, args.ip) = args.before
       /\ ~InWindow(args.before, args.time) =>
            /\ result.status # 429
            /\ CountOf(rateLimitMap, args.ip) = 1
            /\ WindowOf(admitted, args.ip) = [opened |-> args.time, n |-> 1]
  /\ (op = "GET" /\ args.url = "") =>
       /\ result = Response(400, FALSE)
       /\ WindowOf(admitted, args.ip) = args.before

\* the 51st request of a window, arriving at the last instant of it with a
\* valid url, was refused
C19_Witness ==
  /\ op = "GET"
  /\ args.url \in Urls
  /\ args.before # NoWindow
  /\ args.before.n = MAX_REQUESTS_PER_WINDOW
  /\ args.time = args.before.opened + RATE_LIMIT_WINDOW
  /\ result = Response(429, FALSE)

(***************************************************************************)
(* C20: the saved dashboard is the dashboard                               *)
(***************************************************************************)

\* the last step was one of the seven reducers
IsReducer ==
  op \in {"addWidget", "updateLayout", "removeWidget", "updateWidget",
          "reorderWidgets", "setTheme", "loadDashboard"}

\* C20: after any sequence of reducer actions, loading the initial state from
\* what is saved under "dashboard-state" gives the in-memory state: the same
\* widgets with the same configuration and layout, and the same theme
C20_SavedIsState == IsReducer => loadInitialState(localStorage) = state

(***************************************************************************)
(* The classifier and the extractors on payloads of every shape            *)
(***************************************************************************)

\* key in result
In(v, k) ==
  \/ v.t = "obj" /\ HasOwn(v, k)
  \/ v.t = "arr" /\ ((IsIndex(k) /\ StrToNat(k) < Len(v.a)) \/ k = S_length)
  \/ k = S_proto
  \/ k \in InheritedMethods

\* the for-loop over path.split(".")
RECURSIVE Follow(_, _)
Follow(current, keys) ==
  IF keys = <<>> THEN current
  ELSE IF Truthy(current) /\ TypeOf(current) = "object" /\ In(current, Head(keys))
  THEN Follow(Get(current, Head(keys)), Tail(keys))
  ELSE Null

extractData(data, path) ==
  IF ~Truthy(data) THEN Null
  ELSE IF ~Truthy(path) THEN data
  ELSE Follow(data, Split(path.s, "."))

\* largest number of keys of a generated payload
MaxShapeEntries == 2

\* a record with a scalar, a list and a nested record
ShapeRecord ==
  Obj(<<Entry(K_open, Str(V_106)), Entry(K_items, Arr(<<Num(1)>>)),
        Entry(K_b, Obj(<<Entry(K_high, Num(2))>>))>>)

\* a map from dates to records
ShapeSeries == Obj(<<Entry(D_0103, ShapeRecord), Entry(D_0102, LaterRecord)>>)

\* a map from dates to records whose first record has a field named like an
\* inherited method
ShadowSeries ==
  Obj(<<Entry(D_0103, Obj(<<Entry(S_hasOwnProperty, Str(V_105))>>)),
        Entry(D_0102, LaterRecord)>>)

ShapeList == Arr(<<ShapeRecord, LaterRecord>>)

\* names of the envelopes of the vendors and a plain name
ShapeKeys == {K_TimeSeriesDaily, S_Monthly, S_GlobalQuote, S_data, K_a}

ShapeValues == {ShapeSeries, ShapeRecord, ShapeList, Null, Num(5)}

\* what may follow the first key of a payload that starts with a date
AfterDate ==
  {<<>>, <<Entry(K_TimeSeriesDaily, ShapeSeries)>>, <<Entry(S_GlobalQuote, ShapeRecord)>>}

\* payloads whose first key is a date
DatedPayloads == {Obj(<<Entry(D_0103, v)>> \o rest) : v \in ShapeValues, rest \in AfterDate}

\* payloads with a record that shadows an inherited method
ShadowPayloads ==
  { ShadowSeries,
    Obj(<<Entry(K_TimeSeriesDaily, ShadowSeries)>>),
    Obj(<<Entry(S_GlobalQuote, ShapeRecord), Entry(K_TimeSeriesDaily, ShadowSeries)>>),
    Obj(<<Entry(S_GlobalQuote, Obj(<<Entry(S_hasOwnProperty, Str(V_105))>>))>>) }

\* objects in every key order, lists and scalars
ShapePayloads ==
  ObjectsOver(ShapeKeys, ShapeValues, MaxShapeEntries)
  \cup DatedPayloads
  \cup ShadowPayloads
  \cup {ShapeList, Arr(<<>>), Arr(<<Num(1)>>)}
  \cup ScalarPayloads

\* paths handed to extractData
ShapePaths == {Undef, Str(<<>>), Str(K_a), Str(P_aDotB)}

\* a payload as the hook delivers it, for a widget without an adapter
InitShapes ==
  /\ payload \in ShapePayloads
  /\ config = Undef
  /\ adapterId = Undef
  /\ op = "idle"
  /\ result = Undef
  /\ OutsideCoreIdle

FindTimeSeriesCall ==
  /\ op = "idle"
  /\ op' = "findTimeSeries"
  /\ result' = findTimeSeries(payload)
  /\ UNCHANGED coreVars
  /\ UNCHANGED outsideCore

FindDataStructureCall ==
  /\ op = "idle"
  /\ op' = "findDataStructure"
  /\ result' = findDataStructure(payload)
  /\ UNCHANGED coreVars
  /\ UNCHANGED outsideCore

ExtractSimpleFieldsCall ==
  /\ op = "idle"
  /\ op' = "extractSimpleFields"
  /\ result' = extractSimpleFields(payload)
  /\ UNCHANGED coreVars
  /\ UNCHANGED outsideCore

ExtractDataCall ==
  /\ op = "idle"
  /\ \E path \in ShapePaths :
       /\ args' = path
       /\ result' = extractData(payload, path)
  /\ op' = "extractData"
  /\ UNCHANGED coreVars
  /\ UNCHANGED <<now, cache, stored, hookVars, proxyVars, storeVars>>

NextShapes ==
  \/ FindTimeSeriesCall
  \/ FindDataStructureCall
  \/ ExtractSimpleFieldsCall
  \/ ExtractFieldsCall
  \/ ProcessedDataCall
  \/ ExtractDataCall

SpecShapes == InitShapes /\ [][NextShapes]_vars

(***************************************************************************)
(* C21  findTimeSeries: the first accepted key, else the root, else null    *)
(***************************************************************************)

\* the key k of data names a series: a time-series name, and a value that is
\* a non-array object whose first own key starts with a date
NamesSeries(data, k) ==
  /\ TimeSeriesPattern(k)
  /\ Get(data, k).t = "obj"
  /\ Get(data, k).e # <<>>
  /\ DateLike(Get(data, k).e[1].k)

\* positions of the accepted keys in the payload's key order
AcceptedKeys ==
  IF payload.t # "obj" THEN {}
  ELSE {i \in 1..Len(payload.e) : NamesSeries(payload, payload.e[i].k)}

\* C21: findTimeSeries returns the first key, in the payload's key order, with
\* a time-series name and a value that is a non-array object whose first own
\* key starts with a YYYY-MM-DD date, together with that value; when no key
\* is accepted and the first own key of the root object is date-like it
\* returns the whole object under the key "root"; otherwise it returns null
C21_FirstAcceptedSeries ==
  op = "findTimeSeries" =>
    IF payload.t # "obj" THEN result = Null
    ELSE /\ AcceptedKeys # {} =>
              \E i \in AcceptedKeys :
                 /\ \A j \in AcceptedKeys : i <= j
                 /\ result = Found(payload.e[i].k, payload.e[i].v)
         /\ (AcceptedKeys = {} /\ payload.e # <<>> /\ DateLike(payload.e[1].k)) =>
              result = Found(S_root, payload)
         /\ (AcceptedKeys = {} /\ (payload.e = <<>> \/ ~DateLike(payload.e[1].k))) =>
              result = Null

\* a key with a time-series name whose value is a record without dates comes
\* before the key of a series: the second key is returned
C21_Witness ==
  /\ op = "findTimeSeries"
  /\ payload.t = "obj"
  /\ Len(payload.e) = 2
  /\ TimeSeriesPattern(payload.e[1].k)
  /\ payload.e[1].v = ShapeRecord
  /\ result = Found(payload.e[2].k, ShapeSeries)

(***************************************************************************)
(* C22  a payload with a series is classified as a time series everywhere   *)
(***************************************************************************)

\* C22: for every payload in which findTimeSeries finds a series, also when
\* a quote-like or data-like key comes before it, findDataStructure returns
\* that key and data tagged isTimeSeries = true, extractFields returns the
\* list of the time-series fields, and the renderer's fallback classification
\* is timeSeries with that key and data
C22_PrefersTimeSeries ==
  LET timeSeries == findTimeSeries(payload)
  IN timeSeries # Null =>
       /\ op = "findDataStructure" =>
            result = [key |-> timeSeries.key, data |-> timeSeries.data, isTimeSeries |-> TRUE]
       /\ op = "extractFields" =>
            /\ IsList(result)
            /\ extractTimeSeriesFields(payload) # Throw
            /\ result = StrArr(SelectSeq(Strings(extractTimeSeriesFields(payload)), IsFieldName))
       /\ op = "processedData" =>
            result = Classified("timeSeries", timeSeries.key, timeSeries.data)

(***************************************************************************)
(* C23  findDataStructure without a series: first quote-like object or root *)
(***************************************************************************)

\* positions of the keys with a quote or data name whose value is a
\* non-array object
QuoteKeys ==
  IF payload.t # "obj" THEN {}
  ELSE {i \in 1..Len(payload.e) : QuotePattern(payload.e[i].k) /\ payload.e[i].v.t = "obj"}

\* C23: when no time series is found, findDataStructure returns the first
\* key in the payload's key order with a quote or data name and a non-array
\* object as value, tagged non-time-series, skipping keys whose value is an
\* array, a scalar or null; when no key qualifies it returns the root under
\* the key "root", tagged non-time-series; it never returns null for an object
C23_FirstQuoteOrRoot ==
  (op = "findDataStructure" /\ AcceptedKeys = {} /\ payload.t \in {"obj", "arr"}
     /\ ~(payload.t = "obj" /\ payload.e # <<>> /\ DateLike(payload.e[1].k))) =>
    /\ result # Null
    /\ QuoteKeys # {} =>
         \E i \in QuoteKeys :
            /\ \A j \in QuoteKeys : i <= j
            /\ result = [key |-> payload.e[i].k, data |-> payload.e[i].v,
                         isTimeSeries |-> FALSE]
    /\ QuoteKeys = {} =>
         result = [key |-> S_root, data |-> payload, isTimeSeries |-> FALSE]

\* a data key holding a list comes before a quote key holding a record: the
\* record of the second key is returned
C23_Witness ==
  /\ op = "findDataStructure"
  /\ payload.t = "obj"
  /\ Len(payload.e) = 2
  /\ payload.e[1] = Entry(S_data, ShapeList)
  /\ payload.e[2] = Entry(S_GlobalQuote, ShapeRecord)
  /\ result = [key |-> S_GlobalQuote, data |-> ShapeRecord, isTimeSeries |-> FALSE]

(***************************************************************************)
(* C24  field extraction of a quote or flat object lists the scalar keys    *)
(***************************************************************************)

\* the structure chosen for the payload is a quote or flat object
ChoosesFlatObject ==
  /\ findDataStructure(payload) # Null
  /\ ~findDataStructure(payload).isTimeSeries
  /\ findDataStructure(payload).data.t = "obj"

\* the own keys of o whose value is neither a nested object nor an array
ScalarKeys(o) ==
  LET IsScalarKey(k) == OwnVal(o, k).t \notin {"obj", "arr"}
  IN SelectSeq(ObjectKeys(o), IsScalarKey)

\* C24: for a quote or flat object, extractSimpleFields returns exactly the
\* own keys of the chosen structure whose value is a scalar, in natural-sort
\* order; no key whose value is a nested object or an array is listed
C24_ScalarKeysOnly ==
  (op = "extractSimpleFields" /\ ChoosesFlatObject) =>
    /\ IsList(result)
    /\ result = StrArr(NaturalSort(ScalarKeys(findDataStructure(payload).data)))

(***************************************************************************)
(* C25  an opaque object contributes the keys of its nested objects         *)
(***************************************************************************)

\* an object without a series and without a key of a quote or data name
IsOpaquePayload ==
  /\ payload.t = "obj"
  /\ findTimeSeries(payload) = Null
  /\ \A i \in 1..Len(payload.e) : ~QuotePattern(payload.e[i].k)

\* the names a list of fields holds
Listed(fields) == {fields.a[i] : i \in 1..Len(fields.a)}

\* C25: for an opaque object payload, the list extractFields returns holds
\* the immediate keys of every nested object of the payload
C25_NestedKeysListed ==
  (op = "extractFields" /\ IsOpaquePayload) =>
    /\ IsList(result)
    /\ \A i \in 1..Len(payload.e) :
         payload.e[i].v.t = "obj" =>
           \A j \in 1..Len(payload.e[i].v.e) :
              IsFieldName(payload.e[i].v.e[j].k) =>
                Str(payload.e[i].v.e[j].k) \in Listed(result)

(***************************************************************************)
(* C26  extractData: the payload itself, or the value a path leads to       *)
(***************************************************************************)

\* the value reached by reading the segments one after the other as
\* properties; null as soon as the current value is not an object or does
\* not have the segment
RECURSIVE Reached(_, _)
Reached(v, segments) ==
  IF segments = <<>> THEN v
  ELSE IF v.t = "obj" /\ HasOwn(v, Head(segments))
  THEN Reached(OwnVal(v, Head(segments)), Tail(segments))
  ELSE Null

\* C26: extractData never throws; with an empty or undefined path it returns
\* the payload unchanged, falsy payloads such as 0, false and "" included;
\* with a non-empty path it returns the value the dot-separated segments lead
\* to, and null as soon as a segment is missing or the current value is not
\* an object
C26_PayloadOrReached ==
  op = "extractData" =>
    /\ result # Throw
    /\ args \in {Undef, Str(<<>>)} => result = payload
    /\ args \notin {Undef, Str(<<>>)} => result = Reached(payload, Split(args.s, "."))

(***************************************************************************)
(* C27  a response with an error is reported and not cached                 *)
(***************************************************************************)

\* the body carries an error field
CarriesError(json) == json.t = "obj" /\ HasOwn(json, S_error)

\* the body carries an error field that holds an error
ReportsError(json) == CarriesError(json) /\ Truthy(OwnVal(json, S_error))

\* whenever an error is held no data is held
ErrorMeansNoData == hook # Undef => (hook.error # Null => hook.data = Null)

\* C27 as stated: when the fetch of a response that carries an error field
\* completes, the hook holds the response's error message, no data and
\* loading = false, and the cache is as it was before; in every state a
\* non-null error implies null data
C27_ErrorFieldNotCached ==
  /\ [][(op' = "respond" /\ CarriesError(result')) =>
          /\ hook'.error = Str(ToStr(OwnVal(result', S_error)))
          /\ hook'.data = Null
          /\ hook'.loading = FALSE
          /\ cache' = cache]_vars
  /\ []ErrorMeansNoData

\* C27 amended: the same for a response whose error field holds a truthy
\* value; a response whose error field is null is data: it is cached under
\* the url of its request and becomes the hook's data, with error = null
C27_ErrorNotCached ==
  /\ [][(op' = "respond" /\ ReportsError(result')) =>
          /\ hook'.error = Str(ToStr(OwnVal(result', S_error)))
          /\ hook'.data = Null
          /\ hook'.loading = FALSE
          /\ cache' = cache]_vars
  /\ [][(op' = "respond" /\ CarriesError(result') /\ ~ReportsError(result')) =>
          /\ hook'.error = Null
          /\ hook'.data = result'
          /\ hook'.loading = FALSE
          /\ \E url \in Urls : DataCache_get(cache', url, now).value = result']_vars
  /\ []ErrorMeansNoData

\* a hook that held data received a response with an error: the data is
\* gone, the message is held, and the cache is empty
C27_Witness ==
  /\ op = "respond"
  /\ ReportsError(result)
  /\ args.data # Null
  /\ hook.data = Null
  /\ hook.error = Str(S_rateLimitExceeded)
  /\ ~hook.loading
  /\ cache = <<>>

(***************************************************************************)
(* C28  the newest response for the current url is the one that stays       *)
(***************************************************************************)

\* data that is the body of an upstream response
IsResponse(data) == data.t = "obj" /\ HasOwn(data, K_a) /\ HasOwn(data, K_b)

\* the number of the request a body answers, and the url it was fetched from
RequestOf(data) == OwnVal(data, K_a).m

UrlOf(data) == OwnVal(data, K_b).s

\* C28: once all requests of the hook have completed, the data it holds was
\* fetched from the hook's current url, and a response never replaces the
\* response of a request that was issued later
C28_NewestResponseWins ==
  /\ [](( /\ hook # Undef
          /\ inflight = {}
          /\ hook.url # ""
          /\ IsResponse(hook.data) ) => UrlOf(hook.data) = hook.url)
  /\ [][(op' = "respond" /\ IsResponse(hook.data) /\ IsResponse(hook'.data)) =>
          RequestOf(hook'.data) >= RequestOf(hook.data)]_vars

(***************************************************************************)
(* C29  positions are indexes                                               *)
(***************************************************************************)

\* a widget without its position
WithoutPosition(w) == Obj(SelectSeq(w.e, LAMBDA e : e.k # S_position))

\* the widgets of a list, each without its position
Unplaced(ws) == [i \in 1..Len(ws) |-> WithoutPosition(ws[i])]

\* every widget's position is its index in the list
PositionsAreIndexes ==
  \A i \in 1..Len(state.widgets.a) : Get(state.widgets.a[i], S_position) = Num(i - 1)

\* ws2 holds the widgets of ws1 in some order
SameWidgets(ws1, ws2) ==
  /\ Len(ws1) = Len(ws2)
  /\ \E f \in [1..Len(ws1) -> 1..Len(ws1)] :
       /\ \A i, j \in 1..Len(ws1) : f[i] = f[j] => i = j
       /\ \A i \in 1..Len(ws1) : ws2[i] = ws1[f[i]]

\* C29: after any sequence of addWidget, removeWidget, reorderWidgets,
\* updateLayout, setTheme and updateWidget from the empty dashboard every
\* widget's position is its index in the list; removeWidget leaves the other
\* widgets as they were but for the position, reorderWidgets leaves the same
\* widgets, each as it was but for the position, and updateWidget with an id
\* of no widget leaves the state and the saved copy as they were
C29_PositionsAreIndexes ==
  /\ []PositionsAreIndexes
  /\ [][op' = "removeWidget" =>
          \E id \in WidgetIds :
             Unplaced(state'.widgets.a) =
               Unplaced(SelectSeq(state.widgets.a, LAMBDA w : Get(w, S_id) # id))]_vars
  /\ [][op' = "reorderWidgets" =>
          SameWidgets(Unplaced(state.widgets.a), Unplaced(state'.widgets.a))]_vars
  /\ [][(op' = "updateWidget" /\ FindIndex(state.widgets.a, Get(args', S_id)) = 0) =>
          /\ state' = state
          /\ localStorage' = localStorage]_vars

\* after a removal the dashboard holds one widget, the second of the two
\* ids, at position 0, and the saved copy holds it too
C29_Witness ==
  /\ op = "removeWidget"
  /\ Len(state.widgets.a) = 1
  /\ Get(state.widgets.a[1], S_id) = Str(<<"w", "2">>)
  /\ Get(state.widgets.a[1], S_position) = Num(0)
  /\ loadInitialState(localStorage).widgets.a # <<>>

(***************************************************************************)
(* C30  the fields the dialog offers are keys of what the renderer shows    *)
(***************************************************************************)

\* the dialog's getFieldOptions without a search text
getFieldOptions(jsonData) ==
  IF ~Truthy(jsonData) THEN StrArr(<<>>)
  ELSE LET fields == extractFields(jsonData)
       IN IF fields = Throw THEN Throw
          ELSE StrArr(SelectSeq(Strings(fields), IsFieldName))

\* the renderer's getFieldValue
getFieldValue(obj, field) ==
  IF ~Truthy(obj) \/ field = <<>> THEN Null
  ELSE IF TypeOf(obj) = "object" /\ In(obj, field) THEN Get(obj, field)
  ELSE extractData(obj, Str(field))

\* labels[labels.length - 1] after labels.sort((a, b) => a.localeCompare(b))
LatestDate(labels) ==
  CHOOSE l \in {labels[i] : i \in 1..Len(labels)} :
    \A i \in 1..Len(labels) : localeCompare(labels[i], l) <= 0

\* the object whose fields the card view of a classified payload shows
ShownObject(view) ==
  IF view = Null THEN Null
  ELSE IF view.type = "timeSeries"
  THEN (IF ObjectKeys(view.data) = <<>> THEN Undef
        ELSE Get(view.data, LatestDate(ObjectKeys(view.data))))
  ELSE IF view.type = "array"
  THEN (IF view.data.a = <<>> THEN Null ELSE view.data.a[1])
  ELSE view.data

\* C30: every field the dialog offers for a payload is a key of the object
\* the renderer shows for the same payload in a widget without adapter, and
\* getFieldValue finds it there
C30_OfferedFieldsResolve ==
  (op = "extractFields" /\ IsList(result)) =>
    LET shown == ShownObject(processedData(payload, Undef, Undef))
        offered == Strings(getFieldOptions(payload))
    IN \A i \in 1..Len(offered) :
         /\ shown.t = "obj"
         /\ HasOwn(shown, offered[i])

====
